---- MODULE Spec2Model ----
(***************************************************************************)
(* Verification model of libisn (Isotel Sensor Network library, C).        *)
(*                                                                         *)
(* The subsystems are modelled each with its own specifications:           *)
(*   SpecReactor  c/src/isn_reactor.c    tasklet queue, step/run           *)
(*   SpecMutex    c/src/isn_reactor.c    mutexes                           *)
(*   SpecRepeat   c/src/isn_reactor.c    periodic tasklets                 *)
(*   SpecChannel  c/src/isn_reactor.c    channel ring and runall           *)
(*   SpecFrame    c/src/isn_frame.c      short/compact frame send and recv *)
(*   SpecSend     c/src/isn_frame.c      send of payloads of every size    *)
(*   SpecPing     c/src/isn_frame.c      recv of a peer's one-byte frame   *)
(*   SpecBuf      wire adapters          getsendbuf/send/free, buf_locked  *)
(*   SpecChain    isn_frame.c, isn_trans.c  getsendbuf through the layers  *)
(*   SpecLong     c/src/isn_frame_long.c long frame send and recv          *)
(*   SpecMsg      c/src/isn_msg.c        message table, sched, recv, retry *)
(*   SpecFast     c/src/isn_msg.c        build with fast loading           *)
(*   SpecPost     c/src/isn_msg.c        sched interrupted by a post       *)
(*   SpecStaged   c/src/isn_msg.c        staged packet, slots cleared      *)
(*   SpecRunall   c/src/isn_reactor.c    channel drained into local queue  *)
(*   SpecDup      c/src/isn_dup.c        receiver duplicator               *)
(*   SpecRing     PSoC/isn_uart_udb.c    transmit ring with its contents   *)
(*   SpecClockDiff  include/isn_clock.h  isn_clock_diff                    *)
(*   SpecNoise    c/src/isn_frame.c      recv of bytes outside any frame   *)
(*   SpecLoop     c/src/isn_frame.c      recv with its loop counter        *)
(*                                                                         *)
(* 32-bit unsigned values (clock counter, timestamps) are held as the      *)
(* signed integer with the same bit pattern, so that all arithmetic wraps  *)
(* modulo 2^32 exactly as in the C code.  The reactor is the PSoC5 build   *)
(* (first branch of the #if in isn_reactor.c).                             *)
(***************************************************************************)
EXTENDS Integers, Sequences, FiniteSets, TLC

(***************************************************************************)
(* Bit operations on non-negative integers                                 *)
(***************************************************************************)
RECURSIVE BitAnd(_, _)
BitAnd(a, b) ==
    IF a = 0 \/ b = 0 THEN 0
    ELSE (a % 2) * (b % 2) + 2 * BitAnd(a \div 2, b \div 2)

RECURSIVE BitOr(_, _)
BitOr(a, b) ==
    IF a = 0 THEN b
    ELSE IF b = 0 THEN a
    ELSE (IF a % 2 = 1 \/ b % 2 = 1 THEN 1 ELSE 0) + 2 * BitOr(a \div 2, b \div 2)

RECURSIVE BitXor(_, _)
BitXor(a, b) ==
    IF a = 0 THEN b
    ELSE IF b = 0 THEN a
    ELSE ((a + b) % 2) + 2 * BitXor(a \div 2, b \div 2)

BitClear(a, mask) == a - BitAnd(a, mask)

RECURSIVE Pow2(_)
Pow2(n) == IF n = 0 THEN 1 ELSE 2 * Pow2(n - 1)

(***************************************************************************)
(* 32-bit wrapping arithmetic.  A uint32_t bit pattern is represented by   *)
(* the int32_t with the same bits; sums and differences are computed on    *)
(* 16-bit halves so that no intermediate value leaves the 32-bit range.    *)
(***************************************************************************)
Half == 256 * 256

Wrap32(hi, lo) ==
    LET carry == lo \div Half
        l     == lo % Half
        h     == ((hi + carry + (Half \div 2)) % Half) - (Half \div 2)
    IN  h * Half + l

Add32(a, b) == Wrap32((a \div Half) + (b \div Half), (a % Half) + (b % Half))

Sub32(a, b) == Wrap32((a \div Half) - (b \div Half), (a % Half) - (b % Half))

\* the difference computed in the other order
isn_clock_diffSwapped(a, b) == Sub32(b, a)

\* isn_clock_diff: (int32_t)(a - b)
isn_clock_diff(a, b) == Sub32(a, b)

(***************************************************************************)
(* Bounds of the model                                                     *)
(***************************************************************************)
QueueLen  == 4   \* queue_size handed to isn_reactor_init
MaxQueued == 3   \* successful enqueues explored per behaviour
MaxTicks  == 2   \* clock ticks explored per behaviour
MaxExec   == 2   \* executions of one queue entry explored per behaviour
MaxMutexQueued == 2   \* successful mutexqueue calls explored per behaviour

(***************************************************************************)
(* Reactor: program constants (PSoC5 build)                                *)
(***************************************************************************)
MUTEX_SHIFT    == 20
MUTEX_COUNT    == 4
MUTEX_MASK     == 15
FUNC_ADDR_MASK == 262143
INDEX_SHIFT    == 24
MAX_SLEEP_TIME == 268435455

IndexUnit == Pow2(INDEX_SHIFT)
MutexUnit == Pow2(MUTEX_SHIFT)
MutexField == MUTEX_MASK * MutexUnit

\* tasklet function addresses (Thumb code in the low 18 bits) and arguments
Tasklets == {257}
Args     == {0}
\* the clock counter value when the reactor is initialised
InitClocks == {-1}

VARIABLES
    clock,                      \* *isn_clock_counter
    ticks,                      \* number of clock ticks taken (bounded)
    queue_table,                \* isn_tasklet_entry_t queue_table[queue_len]
    queue_free,
    queue_changed,
    queue_mutex_locked_bits,
    isn_tasklet_queue_size,
    isn_tasklet_queue_max,
    self_index,
    isn_reactor_timer_trigger,
    isn_reactor_active_timestamp,
    muxes,                      \* static counter of isn_reactor_getmutex
    pc,                         \* "idle" | "gate" | "loop" | "tasklet"
    step_i, step_j,             \* locals i, j of isn_reactor_step
    executed,                   \* local executed of isn_reactor_step
    next_time_to_exec,          \* local next_time_to_exec of isn_reactor_step
    step_ret,                   \* value returned by the last completed step()
    ret,                        \* value returned by the last API call
    g_ent,                      \* history: per slot, the entry that occupies it
    g_order,                    \* history: occupied slots in the order of enqueue
    g_count,                    \* history: number of successful enqueues
    g_drop_wrong,               \* history: a drop call did other than documented
    pass_clock                  \* history: clock when the current pass began

reactor_vars == << queue_table, queue_free, queue_changed, queue_mutex_locked_bits,
                   isn_tasklet_queue_size, isn_tasklet_queue_max, self_index,
                   isn_reactor_timer_trigger, isn_reactor_active_timestamp, muxes,
                   pc, step_i, step_j, executed, next_time_to_exec,
                   step_ret, ret, g_ent, g_order, g_count, g_drop_wrong,
                   pass_clock >>

(***************************************************************************)
(* Reactor: queue table macros.  An & with a mask of contiguous bits is    *)
(* written as the division and remainder that extract the same bits.       *)
(***************************************************************************)
Slots == 0 .. (QueueLen - 1)

\* QUEUE_LINKANDCLEAR(i, j): the word holds only the link
LinkWord(j) == j * IndexUnit

QUEUE_NEXT(tab, i) == (tab[i].tasklet \div IndexUnit) % 256

QUEUE_MUTEX(tab, i) == ((tab[i].tasklet \div MutexUnit) % (MUTEX_MASK + 1)) * MutexUnit

QUEUE_FUNC_VALID(tab, i) == tab[i].tasklet % (FUNC_ADDR_MASK + 1)

QUEUE_FUNC_ADDR(tab, i) == tab[i].tasklet % (FUNC_ADDR_MASK + 1)

QUEUE_TIME(tab, i) == tab[i].time

\* replaces the top byte of the word by j, keeps the low 24 bits
QUEUE_LINK(tab, i, j) ==
    [tab EXCEPT ![i].tasklet = (@ % IndexUnit) + j * IndexUnit]

QUEUE_LINKANDCLEAR(tab, i, j) == [tab EXCEPT ![i].tasklet = LinkWord(j)]

isn_clock_remains(until) == isn_clock_diff(until, clock)

(***************************************************************************)
(* Reactor: initial state (isn_reactor_init and the static initialisers)   *)
(***************************************************************************)
NoEnt == [used |-> FALSE, kind |-> "none", m |-> 0, execs |-> 0, pure |-> TRUE,
          dropped |-> FALSE, ran_dropped |-> FALSE, locked_exec |-> FALSE,
          overtook |-> FALSE, overtook_due |-> FALSE]

isn_reactor_init ==
    /\ queue_table = [i \in Slots |->
                        [tasklet |-> LinkWord(i + 1), caller |-> 0,
                         caller_queue |-> 0, arg |-> 0, time |-> 0]]
    /\ queue_free = 1
    /\ queue_changed = 0
    /\ queue_mutex_locked_bits = 0
    /\ isn_tasklet_queue_size = 0
    /\ isn_tasklet_queue_max = 0
    /\ self_index = -1
    /\ isn_reactor_timer_trigger = 0
    /\ isn_reactor_active_timestamp = 0
    /\ muxes = 0
    /\ pc = "idle"
    /\ step_i = 0
    /\ step_j = 0
    /\ executed = 0
    /\ next_time_to_exec = MAX_SLEEP_TIME
    /\ step_ret = 0
    /\ ret = 0
    /\ g_ent = [i \in Slots |-> NoEnt]
    /\ g_order = << >>
    /\ g_count = 0
    /\ g_drop_wrong = FALSE
    /\ pass_clock = 0

\* entries that are queued: enqueued, not yet unlinked by step, not dropped
Pending(s) == g_ent[s].used /\ ~g_ent[s].dropped

\* slot a was filled before slot b (both occupied)
Before(a, b) ==
    \E x, y \in 1 .. Len(g_order) : x < y /\ g_order[x] = a /\ g_order[y] = b

(***************************************************************************)
(* Reactor: enqueue                                                        *)
(***************************************************************************)
\* the capacity test of isn_reactor_call_at
QueueFull(tab, free) == QUEUE_NEXT(tab, free) = QueueLen

\* (uint32_t)tasklet & (FUNC_ADDR_MASK | (MUTEX_MASK << MUTEX_SHIFT))
MaskTasklet(tasklet) ==
    (tasklet % (FUNC_ADDR_MASK + 1))
      + ((tasklet \div MutexUnit) % (MUTEX_MASK + 1)) * MutexUnit

\* the word stored by isn_reactor_call_at for a given tasklet pointer
StoredTasklet(old, tasklet) == BitOr(old, MaskTasklet(tasklet))

\* isn_reactor_call_at(tasklet, caller, arg, time); kind and m are history
CallAt(tasklet, caller, arg, time, kind, m) ==
    /\ pc \in {"idle", "tasklet"}
    /\ g_count < MaxQueued
    /\ IF QueueFull(queue_table, queue_free) \/ tasklet = 0
       THEN /\ ret' = -1
            /\ UNCHANGED << queue_table, queue_free, queue_changed,
                            isn_tasklet_queue_size, g_ent, g_order, g_count >>
       ELSE /\ queue_table' = [queue_table EXCEPT
                    ![queue_free].tasklet = StoredTasklet(@, tasklet),
                    ![queue_free].caller = caller,
                    ![queue_free].caller_queue = 0,
                    ![queue_free].arg = arg,
                    ![queue_free].time = time]
            /\ queue_changed' = 1
            /\ ret' = queue_free
            /\ isn_tasklet_queue_size' = isn_tasklet_queue_size + 1
            /\ queue_free' = QUEUE_NEXT(queue_table, queue_free)
            /\ g_ent' = [g_ent EXCEPT ![queue_free] =
                            [NoEnt EXCEPT !.used = TRUE, !.kind = kind, !.m = m]]
            /\ g_order' = Append(g_order, queue_free)
            /\ g_count' = g_count + 1
    /\ UNCHANGED << queue_mutex_locked_bits, isn_tasklet_queue_max, self_index,
                    isn_reactor_timer_trigger, isn_reactor_active_timestamp, muxes,
                    pc, step_i, step_j, executed, next_time_to_exec,
                    step_ret, pass_clock, clock, ticks, g_drop_wrong >>

\* isn_reactor_queue(tasklet, arg): call_at(tasklet, NULL, arg, isn_clock_now())
Queue ==
    \E t \in Tasklets, a \in Args : CallAt(t, 0, a, clock, "queue", 0)

\* isn_reactor_queue_at(tasklet, arg, time) with a time in the future
QueueAt ==
    \E t \in Tasklets, a \in Args, d \in {1} :
        CallAt(t, 0, a, Add32(clock, d), "queue_at", 0)

(***************************************************************************)
(* Reactor: mutexes                                                        *)
(***************************************************************************)
\* the value returned by the n-th call (n counted from 0) of isn_reactor_getmutex
GetMutexValue(n) == IF n > MUTEX_COUNT THEN 0 ELSE Pow2(n) * MutexUnit

\* mutexes are obtained while the application starts up, before it queues
\* tasklets or locks anything
isn_reactor_getmutex ==
    /\ pc = "idle"
    /\ g_count = 0
    /\ queue_mutex_locked_bits = 0
    /\ ret' = GetMutexValue(muxes)
    /\ muxes' = IF muxes > MUTEX_COUNT THEN muxes ELSE muxes + 1
    /\ UNCHANGED << queue_table, queue_free, queue_changed, queue_mutex_locked_bits,
                    isn_tasklet_queue_size, isn_tasklet_queue_max, self_index,
                    isn_reactor_timer_trigger, isn_reactor_active_timestamp,
                    pc, step_i, step_j, executed, next_time_to_exec,
                    step_ret, g_ent, g_order, g_count, pass_clock, clock, ticks, g_drop_wrong >>

\* the mutexes handed out so far by isn_reactor_getmutex; the callers use the
\* one handed out first and the one handed out last
IssuedMutexes ==
    { GetMutexValue(k) : k \in (0 .. (muxes - 1)) \cap {0, MUTEX_COUNT} }

\* isn_reactor_mutexqueue(tasklet, arg, mutex_bits)
MutexQueueCall(t, a, m) ==
    CallAt(BitOr(t % (FUNC_ADDR_MASK + 1), m), 0, a, clock, "mutexqueue", m)

MutexQueue ==
    /\ g_count < MaxMutexQueued
    /\ \E t \in Tasklets, a \in Args, m \in IssuedMutexes : MutexQueueCall(t, a, m)

MutexLockCall(m) ==
    /\ pc \in {"idle", "tasklet"}
    /\ queue_mutex_locked_bits' = BitOr(queue_mutex_locked_bits, m)
    /\ ret' = IF queue_mutex_locked_bits' = queue_mutex_locked_bits THEN 1 ELSE 0
    /\ UNCHANGED << queue_table, queue_free, queue_changed,
                    isn_tasklet_queue_size, isn_tasklet_queue_max, self_index,
                    isn_reactor_timer_trigger, isn_reactor_active_timestamp, muxes,
                    pc, step_i, step_j, executed, next_time_to_exec,
                    step_ret, g_ent, g_order, g_count, pass_clock, clock, ticks, g_drop_wrong >>

isn_reactor_mutex_lock == \E m \in IssuedMutexes : MutexLockCall(m)

MutexUnlockCall(m) ==
    /\ pc \in {"idle", "tasklet"}
    /\ queue_mutex_locked_bits' = BitClear(queue_mutex_locked_bits, m)
    /\ IF queue_mutex_locked_bits' = queue_mutex_locked_bits
       THEN ret' = 1 /\ UNCHANGED queue_changed
       ELSE ret' = 0 /\ queue_changed' = 1
    /\ UNCHANGED << queue_table, queue_free,
                    isn_tasklet_queue_size, isn_tasklet_queue_max, self_index,
                    isn_reactor_timer_trigger, isn_reactor_active_timestamp, muxes,
                    pc, step_i, step_j, executed, next_time_to_exec,
                    step_ret, g_ent, g_order, g_count, pass_clock, clock, ticks, g_drop_wrong >>

isn_reactor_mutex_unlock == \E m \in IssuedMutexes : MutexUnlockCall(m)

(***************************************************************************)
(* Reactor: drop and change_timed_self                                     *)
(***************************************************************************)
isn_reactor_isvalid(tab, index, tasklet, arg) ==
    IF index >= QueueLen \/ index < 0 THEN FALSE
    ELSE QUEUE_FUNC_ADDR(tab, index) = tasklet /\ tab[index].arg = arg

\* drop without the test for the running entry
DropTableAny(tab, index, tasklet, arg, self) ==
    IF isn_reactor_isvalid(tab, index, tasklet, arg)
    THEN [tab EXCEPT ![index].tasklet = 0]
    ELSE tab

\* the table after isn_reactor_drop(index, tasklet, arg)
DropTable(tab, index, tasklet, arg, self) ==
    IF isn_reactor_isvalid(tab, index, tasklet, arg) /\ index # self
    THEN [tab EXCEPT ![index].tasklet = 0]
    ELSE tab

DropCall(index, t, a) ==
    /\ pc \in {"idle", "tasklet"}
    /\ queue_table' = DropTable(queue_table, index, t, a, self_index)
    /\ ret' = IF isn_reactor_isvalid(queue_table, index, t, a) THEN 1 ELSE 0
    /\ g_ent' = IF isn_reactor_isvalid(queue_table, index, t, a) /\ index # self_index
                THEN [g_ent EXCEPT ![index].dropped = TRUE]
                ELSE g_ent
    /\ g_drop_wrong' =
          (g_drop_wrong \/
             IF ~isn_reactor_isvalid(queue_table, index, t, a) \/ index = self_index
             THEN queue_table' # queue_table
             ELSE QUEUE_FUNC_VALID(queue_table', index) # 0)
    /\ UNCHANGED << queue_free, queue_changed, queue_mutex_locked_bits,
                    isn_tasklet_queue_size, isn_tasklet_queue_max, self_index,
                    isn_reactor_timer_trigger, isn_reactor_active_timestamp, muxes,
                    pc, step_i, step_j, executed, next_time_to_exec,
                    step_ret, g_order, g_count, pass_clock, clock, ticks >>

\* the handles and (task, arg) pairs drop is tried with
DropIndexes == -1 .. QueueLen
DropTasklets == {257, 513}
DropArgs == {0, 1}

isn_reactor_drop ==
    \E index \in DropIndexes, t \in DropTasklets, a \in DropArgs :
        DropCall(index, t, a)

\* isn_reactor_change_timed_self(newtime) with newtime = now + d
ChangeTimedSelfCall(d) ==
    /\ pc \in {"idle", "tasklet"}
    /\ IF self_index >= 0
       THEN /\ queue_table' = [queue_table EXCEPT ![self_index].time = Add32(clock, d)]
            /\ queue_changed' = 1
            /\ ret' = 0
            /\ g_ent' = [g_ent EXCEPT ![self_index].pure = FALSE]
       ELSE /\ ret' = -1
            /\ UNCHANGED << queue_table, queue_changed, g_ent >>
    /\ UNCHANGED << queue_free, queue_mutex_locked_bits,
                    isn_tasklet_queue_size, isn_tasklet_queue_max, self_index,
                    isn_reactor_timer_trigger, isn_reactor_active_timestamp, muxes,
                    pc, step_i, step_j, executed, next_time_to_exec,
                    step_ret, g_order, g_count, pass_clock, clock, ticks, g_drop_wrong >>

isn_reactor_change_timed_self == \E d \in {1} : ChangeTimedSelfCall(d)

(***************************************************************************)
(* The clock counter advances by one tick                                  *)
(***************************************************************************)
Tick ==
    /\ ticks < MaxTicks
    /\ ticks' = ticks + 1
    /\ clock' = Add32(clock, 1)

ReactorTick == Tick /\ UNCHANGED reactor_vars

(***************************************************************************)
(* Reactor: isn_reactor_step, one action per stage of the function         *)
(***************************************************************************)
StepCall ==
    /\ pc = "idle"
    /\ pc' = "gate"
    /\ UNCHANGED << queue_table, queue_free, queue_changed, queue_mutex_locked_bits,
                    isn_tasklet_queue_size, isn_tasklet_queue_max, self_index,
                    isn_reactor_timer_trigger, isn_reactor_active_timestamp, muxes,
                    step_i, step_j, executed, next_time_to_exec,
                    step_ret, ret, g_ent, g_order, g_count, pass_clock,
                    clock, ticks, g_drop_wrong >>

\* return of isn_reactor_step with value n; its locals go out of scope
StepReturn(n) ==
    /\ self_index' = -1
    /\ step_ret' = n
    /\ step_i' = 0
    /\ step_j' = 0
    /\ executed' = 0
    /\ next_time_to_exec' = MAX_SLEEP_TIME
    /\ pc' = "idle"

\* the test that opens the scan of the list
GateOpen(changed, trigger, now) ==
    changed # 0 \/ isn_clock_diff(trigger, now) <= 0

StepGate ==
    /\ pc = "gate"
    /\ IF GateOpen(queue_changed, isn_reactor_timer_trigger, clock)
       THEN /\ queue_changed' = 0
            /\ step_i' = 0
            /\ step_j' = QUEUE_NEXT(queue_table, 0)
            /\ executed' = 0
            /\ next_time_to_exec' = MAX_SLEEP_TIME
            /\ pc' = "loop"
            /\ pass_clock' = clock
            /\ UNCHANGED << self_index, step_ret >>
       ELSE /\ StepReturn(0)
            /\ UNCHANGED << queue_changed, pass_clock >>
    /\ UNCHANGED << queue_table, queue_free, queue_mutex_locked_bits,
                    isn_tasklet_queue_size, isn_tasklet_queue_max,
                    isn_reactor_timer_trigger, isn_reactor_active_timestamp, muxes,
                    ret, g_ent, g_order, g_count, clock, ticks, g_drop_wrong >>

\* loop condition false: leave the scan and return
StepEnd ==
    /\ pc = "loop"
    /\ QUEUE_FUNC_VALID(queue_table, step_j) = 0
    /\ isn_reactor_timer_trigger' = Add32(clock, next_time_to_exec)
    /\ StepReturn(executed)
    /\ UNCHANGED << queue_table, queue_free, queue_changed, queue_mutex_locked_bits,
                    isn_tasklet_queue_size, isn_tasklet_queue_max,
                    isn_reactor_active_timestamp, muxes,
                    ret, g_ent, g_order, g_count, pass_clock, clock, ticks, g_drop_wrong >>

\* the entry is held by a locked mutex
MutexBlocked(tab, j, locked) == BitAnd(QUEUE_MUTEX(tab, j), locked) # 0

\* the time test of step() with the boundary left out
DueStrict(time_to_exec) == time_to_exec < 0

\* the entry's time has been reached
Due(time_to_exec) == time_to_exec <= 0

StepSkipLocked ==
    /\ pc = "loop"
    /\ QUEUE_FUNC_VALID(queue_table, step_j) # 0
    /\ MutexBlocked(queue_table, step_j, queue_mutex_locked_bits)
    /\ step_i' = step_j
    /\ step_j' = QUEUE_NEXT(queue_table, step_j)
    /\ UNCHANGED << queue_table, queue_free, queue_changed, queue_mutex_locked_bits,
                    isn_tasklet_queue_size, isn_tasklet_queue_max, self_index,
                    isn_reactor_timer_trigger, isn_reactor_active_timestamp, muxes,
                    pc, executed, next_time_to_exec,
                    step_ret, ret, g_ent, g_order, g_count, pass_clock,
                    clock, ticks, g_drop_wrong >>

StepNotDue ==
    /\ pc = "loop"
    /\ QUEUE_FUNC_VALID(queue_table, step_j) # 0
    /\ ~MutexBlocked(queue_table, step_j, queue_mutex_locked_bits)
    /\ LET time_to_exec == isn_clock_remains(QUEUE_TIME(queue_table, step_j))
       IN  /\ ~Due(time_to_exec)
           /\ next_time_to_exec' = IF time_to_exec < next_time_to_exec
                                   THEN time_to_exec ELSE next_time_to_exec
    /\ step_i' = step_j
    /\ step_j' = QUEUE_NEXT(queue_table, step_j)
    /\ UNCHANGED << queue_table, queue_free, queue_changed, queue_mutex_locked_bits,
                    isn_tasklet_queue_size, isn_tasklet_queue_max, self_index,
                    isn_reactor_timer_trigger, isn_reactor_active_timestamp, muxes,
                    pc, executed,
                    step_ret, ret, g_ent, g_order, g_count, pass_clock,
                    clock, ticks, g_drop_wrong >>

\* history: y is an entry queued before x, not yet executed, with x's time,
\* free of the mutexes in lockbits and due as of the clock value asof
Overtaken(x, y, lockbits, asof) ==
    /\ Before(y, x)
    /\ Pending(y)
    /\ g_ent[y].execs = 0
    /\ QUEUE_TIME(queue_table, y) = QUEUE_TIME(queue_table, x)
    /\ ~MutexBlocked(queue_table, y, lockbits)
    /\ isn_clock_diff(QUEUE_TIME(queue_table, y), asof) <= 0

\* the tasklet of entry j is called
StepInvoke ==
    /\ pc = "loop"
    /\ QUEUE_FUNC_VALID(queue_table, step_j) # 0
    /\ ~MutexBlocked(queue_table, step_j, queue_mutex_locked_bits)
    /\ Due(isn_clock_remains(QUEUE_TIME(queue_table, step_j)))
    /\ g_ent[step_j].execs < MaxExec
    /\ g_ent' = [g_ent EXCEPT
          ![step_j].execs = @ + 1,
          ![step_j].ran_dropped = @ \/ g_ent[step_j].dropped,
          ![step_j].locked_exec =
                @ \/ BitAnd(g_ent[step_j].m, queue_mutex_locked_bits) # 0,
          ![step_j].overtook = @ \/
                (g_ent[step_j].execs = 0 /\ \E y \in Slots :
                     Overtaken(step_j, y, queue_mutex_locked_bits, clock)),
          ![step_j].overtook_due = @ \/
                (g_ent[step_j].execs = 0 /\ \E y \in Slots :
                     Overtaken(step_j, y, queue_mutex_locked_bits, pass_clock))]
    /\ isn_reactor_active_timestamp' = QUEUE_TIME(queue_table, step_j)
    /\ self_index' = step_j
    /\ executed' = executed + 1
    /\ pc' = "tasklet"
    /\ UNCHANGED << queue_table, queue_free, queue_changed, queue_mutex_locked_bits,
                    isn_tasklet_queue_size, isn_tasklet_queue_max,
                    isn_reactor_timer_trigger, muxes,
                    step_i, step_j, next_time_to_exec,
                    step_ret, ret, g_order, g_count, pass_clock, clock, ticks, g_drop_wrong >>

\* after the tasklet returned: is the entry kept in the queue?
Retrigger(retself, time_to_exec) == retself \/ time_to_exec >= 0

\* the tasklet returns (its own address when retself) and the entry is kept
TaskletReturnKeep ==
    /\ pc = "tasklet"
    /\ \E retself \in BOOLEAN :
        LET time_to_exec == isn_clock_remains(QUEUE_TIME(queue_table, step_j))
        IN  /\ Retrigger(retself, time_to_exec)
            /\ IF time_to_exec < 0
               THEN /\ queue_table' = [queue_table EXCEPT ![step_j].time = clock]
                    /\ next_time_to_exec' = 0
               ELSE /\ next_time_to_exec' = time_to_exec
                    /\ UNCHANGED queue_table
            /\ g_ent' = IF retself
                        THEN [g_ent EXCEPT ![step_j].pure = FALSE] ELSE g_ent
    /\ step_i' = step_j
    /\ step_j' = QUEUE_NEXT(queue_table, step_j)
    /\ pc' = "loop"
    /\ UNCHANGED << queue_free, queue_changed, queue_mutex_locked_bits,
                    isn_tasklet_queue_size, isn_tasklet_queue_max, self_index,
                    isn_reactor_timer_trigger, isn_reactor_active_timestamp, muxes,
                    executed, step_ret, ret, g_order, g_count, pass_clock,
                    clock, ticks, g_drop_wrong >>

\* the table after entry j (predecessor i) is unlinked and put on the free list
Unlink(tab, i, j, free) ==
    LET t1 == QUEUE_LINK(tab, i, QUEUE_NEXT(tab, j))
        t2 == QUEUE_LINKANDCLEAR(t1, j, QUEUE_NEXT(t1, free))
    IN  QUEUE_LINK(t2, free, j)

\* g_order without slot s
RECURSIVE Without(_, _)
Without(seq, s) ==
    IF seq = << >> THEN << >>
    ELSE IF Head(seq) = s THEN Without(Tail(seq), s)
    ELSE << Head(seq) >> \o Without(Tail(seq), s)

\* the tasklet returns NULL with its time passed: the entry is removed
TaskletReturnFree ==
    /\ pc = "tasklet"
    /\ ~Retrigger(FALSE, isn_clock_remains(QUEUE_TIME(queue_table, step_j)))
    /\ queue_table' = Unlink(queue_table, step_i, step_j, queue_free)
    /\ isn_tasklet_queue_max' = IF isn_tasklet_queue_size > isn_tasklet_queue_max
                                THEN isn_tasklet_queue_size ELSE isn_tasklet_queue_max
    /\ isn_tasklet_queue_size' = isn_tasklet_queue_size - 1
    /\ queue_changed' = isn_tasklet_queue_size - 1
    /\ step_j' = QUEUE_NEXT(queue_table', step_i)
    /\ g_ent' = [g_ent EXCEPT ![step_j] = NoEnt]
    /\ g_order' = Without(g_order, step_j)
    /\ pc' = "loop"
    /\ UNCHANGED << queue_free, queue_mutex_locked_bits, self_index,
                    isn_reactor_timer_trigger, isn_reactor_active_timestamp, muxes,
                    step_i, executed, next_time_to_exec,
                    step_ret, ret, g_count, pass_clock, clock, ticks, g_drop_wrong >>


\* the period a periodic tasklet passes to ISN_REACTOR_REPEAT_ticks
RepeatPeriod == 1

\* ISN_REACTOR_REPEAT_ticks(period)
ISN_REACTOR_REPEAT_ticks(period) == Add32(isn_reactor_active_timestamp, period)

\* a periodic tasklet: it calls
\* isn_reactor_change_timed_self(ISN_REACTOR_REPEAT_ticks(RepeatPeriod)) and
\* returns its own address; step() then decides about the entry
RepeatTasklet ==
    /\ pc = "tasklet"
    /\ self_index >= 0
    /\ LET tab == [queue_table EXCEPT
                      ![self_index].time = ISN_REACTOR_REPEAT_ticks(RepeatPeriod)]
           time_to_exec == isn_clock_remains(QUEUE_TIME(tab, step_j))
       IN  /\ Retrigger(TRUE, time_to_exec)
           /\ IF time_to_exec < 0
              THEN /\ queue_table' = [tab EXCEPT ![step_j].time = clock]
                   /\ next_time_to_exec' = 0
              ELSE /\ next_time_to_exec' = time_to_exec
                   /\ queue_table' = tab
    /\ queue_changed' = 1
    /\ ret' = 0
    /\ g_ent' = [g_ent EXCEPT ![step_j].pure = FALSE]
    /\ step_i' = step_j
    /\ step_j' = QUEUE_NEXT(queue_table, step_j)
    /\ pc' = "loop"
    /\ UNCHANGED << queue_free, queue_mutex_locked_bits,
                    isn_tasklet_queue_size, isn_tasklet_queue_max, self_index,
                    isn_reactor_timer_trigger, isn_reactor_active_timestamp, muxes,
                    executed, step_ret, g_order, g_count, pass_clock,
                    clock, ticks, g_drop_wrong >>

(***************************************************************************)
(* Frame layer (isn_frame.c): constants                                    *)
(***************************************************************************)
ISN_FRAME_MAXSIZE == 64
IS_NONE       == 0
IS_IN_MESSAGE == 1
IS_FW_MESSAGE == 2

MaxFrames    == 2   \* frames put on the wire per behaviour
MaxRetries   == 2   \* partial acceptances explored per behaviour
FrameTimeout == 1   \* the timeout handed to isn_frame_init, in clock ticks
MaxDropped   == 1   \* calls of recv with an empty buffer explored per behaviour

\* crc8_table of isn_frame.c
CRC8_TABLE ==
    << 0, 77, 154, 215, 121, 52, 227, 174, 242, 191, 104, 37, 139, 198, 17, 92,
       169, 228, 51, 126, 208, 157, 74, 7, 91, 22, 193, 140, 34, 111, 184, 245,
       31, 82, 133, 200, 102, 43, 252, 177, 237, 160, 119, 58, 148, 217, 14, 67,
       182, 251, 44, 97, 207, 130, 85, 24, 68, 9, 222, 147, 61, 112, 167, 234,
       62, 115, 164, 233, 71, 10, 221, 144, 204, 129, 86, 27, 181, 248, 47, 98,
       151, 218, 13, 64, 238, 163, 116, 57, 101, 40, 255, 178, 28, 81, 134, 203,
       33, 108, 187, 246, 88, 21, 194, 143, 211, 158, 73, 4, 170, 231, 48, 125,
       136, 197, 18, 95, 241, 188, 107, 38, 122, 55, 224, 173, 3, 78, 153, 212,
       124, 49, 230, 171, 5, 72, 159, 210, 142, 195, 20, 89, 247, 186, 109, 32,
       213, 152, 79, 2, 172, 225, 54, 123, 39, 106, 189, 240, 94, 19, 196, 137,
       99, 46, 249, 180, 26, 87, 128, 205, 145, 220, 11, 70, 232, 165, 114, 63,
       202, 135, 80, 29, 179, 254, 41, 100, 56, 117, 162, 239, 65, 12, 219, 150,
       66, 15, 216, 149, 59, 118, 161, 236, 176, 253, 42, 103, 201, 132, 83, 30,
       235, 166, 113, 60, 146, 223, 8, 69, 25, 84, 131, 206, 96, 45, 250, 183,
       93, 16, 199, 138, 36, 105, 190, 243, 175, 226, 53, 120, 214, 155, 76, 1,
       244, 185, 110, 35, 141, 192, 23, 90, 6, 75, 156, 209, 127, 50, 229, 168 >>

\* a checksum step that leaves the byte as it is
crc8Plain(b) == b

crc8(b) == CRC8_TABLE[b + 1]

\* payloads handed to the frame layer: length, first byte (the largest value
\* below 0x80); the other bytes follow a fixed pattern with values on both
\* sides of 0x80
PayloadLens  == {1, 2, ISN_FRAME_MAXSIZE}
PayloadFirst == {127}
MkPayload(n, first) ==
    [i \in 1 .. n |-> IF i = 1 THEN first ELSE (i * 67) % 256]
Payloads == { MkPayload(n, b) : n \in PayloadLens, b \in PayloadFirst }

\* number of bytes the child takes in one call of its recv
Accepts == {0, 1, ISN_FRAME_MAXSIZE}

VARIABLES
    f,            \* isn_frame_t of the receiving (and sending) frame layer
    wire,         \* bytes the parent holds and has not yet got consumed by recv
    child_rx,     \* pieces accepted by child->recv, in order
    other_rx,     \* pieces handed to other->recv, in order
    frame_ret,    \* value returned by the last isn_frame_recv
    g_sent,       \* history: payloads handed to isn_frame_send, in order
    g_bad,        \* history: number of frames put on the wire with a wrong CRC
    g_hdr80,      \* history: a frame with header byte 0x80 was put on the wire
    g_cut_in,     \* history: timeouts that cut a frame still being received
    g_cut_fw,     \* history: timeouts that cut a frame still being forwarded
    g_kept_max,   \* history: most ticks between two calls of recv after which
                  \* a frame being received was kept, -1 if none was
    g_cut_min     \* history: fewest ticks between two calls of recv after
                  \* which a frame being received was reset, -1 if none was

frame_vars == << f, wire, child_rx, other_rx, frame_ret, g_sent, g_bad, g_hdr80,
                 g_cut_in, g_cut_fw, g_kept_max, g_cut_min >>

Modes == {0, 1}   \* ISN_FRAME_MODE_SHORT, ISN_FRAME_MODE_COMPACT

\* isn_frame_init(obj, mode, child, other, parent, timeout)
isn_frame_init(mode) ==
    /\ f = [crc_enabled |-> mode, frame_timeout |-> FrameTimeout,
            state |-> IS_NONE, crc |-> 0, recv_buf |-> << >>,
            recv_size |-> 0, recv_len |-> 0, recv_fwed |-> 0, last_ts |-> 0,
            rx_packets |-> 0, rx_counter |-> 0, rx_errors |-> 0,
            rx_dropped |-> 0, rx_retries |-> 0,
            tx_packets |-> 0, tx_counter |-> 0]
    /\ wire = << >>
    /\ child_rx = << >>
    /\ other_rx = << >>
    /\ frame_ret = 0
    /\ g_sent = << >>
    /\ g_bad = 0
    /\ g_hdr80 = FALSE
    /\ g_cut_in = 0
    /\ g_cut_fw = 0
    /\ g_kept_max = -1
    /\ g_cut_min = -1

(***************************************************************************)
(* Frame layer: isn_frame_send                                             *)
(***************************************************************************)
\* a header byte that is the same in both modes
FrameHeaderPlain(mode, size) == (192 - 1 + size) % 256

\* the header byte written by isn_frame_send
FrameHeader(mode, size) ==
    IF mode = 1 THEN BitXor((192 - 1 + size) % 256, 64)
    ELSE (192 - 1 + size) % 256

\* for (i = lo; i < hi; i++) crc = crc8(crc ^ bytes[i]); the range is halved
\* and the left half evaluated first so that the evaluation stays shallow
RECURSIVE CrcRange(_, _, _, _)
CrcRange(crc, bytes, lo, hi) ==
    IF lo >= hi THEN crc
    ELSE IF hi = lo + 1 THEN crc8(BitXor(crc, bytes[lo + 1]))
    ELSE LET mid == (lo + hi) \div 2
             left == CrcRange(crc, bytes, lo, mid)
         IN  IF left >= 0 THEN CrcRange(left, bytes, mid, hi) ELSE left

\* for (i = 0; i < frame_size; i++) crc = crc8(crc ^ *buf++)
CrcOver(crc, bytes) == CrcRange(crc, bytes, 0, Len(bytes))

\* the bytes isn_frame_send hands to parent->send
FrameBytes(mode, payload) ==
    LET body == << FrameHeader(mode, Len(payload)) >> \o payload
    IN  IF mode = 1 THEN body \o << CrcOver(0, body) >> ELSE body

\* the frames isn_frame_send produces for the payloads explored, per mode
SentFrames == [mode \in Modes |-> [p \in Payloads |-> FrameBytes(mode, p)]]

\* isn_frame_send(drv, dest, size); the parent passes the bytes to the peer
isn_frame_send ==
    /\ Len(g_sent) + g_bad < MaxFrames
    /\ \E payload \in Payloads :
        /\ wire' = wire \o SentFrames[f.crc_enabled][payload]
        /\ f' = [f EXCEPT !.tx_packets = @ + 1, !.tx_counter = @ + Len(payload)]
        /\ g_sent' = Append(g_sent, payload)
        /\ g_hdr80' = (g_hdr80 \/ FrameHeader(f.crc_enabled, Len(payload)) = 128)
    /\ UNCHANGED << child_rx, other_rx, frame_ret, g_bad, g_cut_in, g_cut_fw,
                    g_kept_max, g_cut_min >>

\* a Compact frame whose trailer does not match arrives from the line
CorruptFrame ==
    /\ f.crc_enabled = 1
    /\ Len(g_sent) + g_bad < MaxFrames
    /\ \E payload \in Payloads :
        LET frame == SentFrames[1][payload]
            last  == Len(frame)
        IN  /\ wire' = wire \o [frame EXCEPT ![last] = BitXor(@, 1)]
            /\ g_hdr80' = (g_hdr80 \/ FrameHeader(1, Len(payload)) = 128)
    /\ g_bad' = g_bad + 1
    /\ UNCHANGED << f, child_rx, other_rx, frame_ret, g_sent, g_cut_in, g_cut_fw,
                    g_kept_max, g_cut_min >>


\* payload sizes handed to isn_frame_send: all that its assert lets through
SendSizes == 0 .. ISN_FRAME_MAXSIZE

\* isn_frame_send(drv, dest, size) for a payload of any size up to
\* ISN_FRAME_MAXSIZE; the frame is left with the parent
FrameSendSized ==
    /\ Len(g_sent) + g_bad < MaxFrames
    /\ \E size \in SendSizes :
        LET payload == MkPayload(size, 127)
        IN  /\ wire' = wire \o FrameBytes(f.crc_enabled, payload)
            /\ f' = [f EXCEPT !.tx_packets = @ + 1, !.tx_counter = @ + size]
            /\ g_sent' = Append(g_sent, payload)
            /\ g_hdr80' = (g_hdr80 \/ FrameHeader(f.crc_enabled, size) = 128)
            /\ frame_ret' = size
    /\ UNCHANGED << child_rx, other_rx, g_bad, g_cut_in, g_cut_fw,
                    g_kept_max, g_cut_min >>

\* frames a peer puts on the line for the one-byte payload 00: header C0
\* with the trailer that crc8 gives for C0 00, and with the trailer 4D
PingPayload == << 0 >>
PingFrame   == << 192, 0, 164 >>
PingFrame4D == << 192, 0, 77 >>

\* the peer sends one of the two frames; g_sent counts the first, g_bad the
\* second
PeerFeed ==
    /\ Len(g_sent) + g_bad < 1
    /\ \E frame \in {PingFrame, PingFrame4D} :
        /\ wire' = wire \o frame
        /\ g_sent' = IF frame = PingFrame THEN Append(g_sent, PingPayload)
                     ELSE g_sent
        /\ g_bad' = IF frame = PingFrame THEN g_bad ELSE g_bad + 1
    /\ UNCHANGED << f, child_rx, other_rx, frame_ret, g_hdr80, g_cut_in,
                    g_cut_fw, g_kept_max, g_cut_min >>

(***************************************************************************)
(* Frame layer: isn_frame_recv                                             *)
(***************************************************************************)
\* a >= b for two uint32_t values held as signed integers
U32Ge(a, b) ==
    IF (a < 0) = (b < 0) THEN a >= b ELSE a < 0

\* a > b for two uint32_t values held as signed integers
U32Gt(a, b) ==
    IF (a < 0) = (b < 0) THEN a > b ELSE a < 0

Min(a, b) == IF a < b THEN a ELSE b

\* recv_buf[n] = b; bytes behind index n are stale and never read
WriteBuf(buf, n, b) == SubSeq(buf, 1, n) \o << b >>

\* the frame timeout test at the entry of isn_frame_recv
TimedOut(o, now) == U32Gt(isn_clock_diff(now, o.last_ts), o.frame_timeout)

\* the entry of isn_frame_recv: timeout handling and the new timestamp
RecvEnter(o, now) ==
    LET o1 == IF TimedOut(o, now)
              THEN [o EXCEPT !.state = IS_NONE,
                             !.rx_dropped = IF o.recv_len # 0 THEN @ + 1 ELSE @,
                             !.recv_size = 0, !.recv_len = 0]
              ELSE o
    IN  [o1 EXCEPT !.last_ts = now]

\* a byte that opens a frame
IsHeader(b) == b > 128

\* the switch on obj->state for one received byte b; r holds the frame
\* object and what was handed to the other layer
ByteStep(r, b) ==
    LET o == r.f
    IN  IF o.state = IS_NONE THEN
            IF IsHeader(b) THEN
                [r EXCEPT
                   !.other = IF o.recv_size # 0
                             THEN Append(@, SubSeq(o.recv_buf, 1, o.recv_size))
                             ELSE @,
                   !.f = [o EXCEPT !.state = IS_IN_MESSAGE,
                                   !.crc = IF o.crc_enabled = 1 THEN crc8(b) ELSE @,
                                   !.recv_size = 0,
                                   !.recv_len = (b % 64) + 1]]
            ELSE [r EXCEPT !.f = [o EXCEPT
                                   !.recv_buf = WriteBuf(@, o.recv_size, b),
                                   !.recv_size = @ + 1]]
        ELSE IF o.state = IS_IN_MESSAGE THEN
            IF o.recv_size = o.recv_len /\ o.crc_enabled = 1 THEN
                IF b = o.crc
                THEN [r EXCEPT !.f = [o EXCEPT !.state = IS_FW_MESSAGE,
                                               !.recv_fwed = 0,
                                               !.rx_packets = @ + 1,
                                               !.rx_counter = @ + o.recv_size]]
                ELSE [r EXCEPT !.f = [o EXCEPT !.rx_errors = @ + 1,
                                               !.recv_size = 0, !.recv_len = 0,
                                               !.state = IS_NONE]]
            ELSE
                LET o1 == [o EXCEPT !.recv_buf = WriteBuf(@, o.recv_size, b),
                                    !.recv_size = @ + 1]
                IN  IF o.crc_enabled = 1
                    THEN [r EXCEPT !.f = [o1 EXCEPT !.crc = crc8(BitXor(o.crc, b))]]
                    ELSE IF o1.recv_size = o1.recv_len
                    THEN [r EXCEPT !.f = [o1 EXCEPT !.state = IS_FW_MESSAGE,
                                                    !.recv_fwed = 0,
                                                    !.rx_packets = @ + 1,
                                                    !.rx_counter = @ + o1.recv_size]]
                    ELSE [r EXCEPT !.f = o1]
        ELSE r

\* one iteration of the for loop of isn_frame_recv, at index i; k is the
\* number of bytes the child takes per call.  r = [f, child, other, ret, done]
Iteration(r, buf, i, k) ==
    LET r1 == ByteStep(r, buf[i + 1])
        o  == r1.f
    IN  IF o.state = IS_FW_MESSAGE THEN
            LET forwarded_bytes == Min(k, o.recv_size)
                piece == SubSeq(o.recv_buf, o.recv_fwed + 1,
                                o.recv_fwed + forwarded_bytes)
                r2 == [r1 EXCEPT !.child = IF forwarded_bytes > 0
                                           THEN Append(@, piece) ELSE @]
            IN  IF forwarded_bytes < o.recv_size
                THEN [r2 EXCEPT !.f = [o EXCEPT
                                          !.recv_fwed = @ + forwarded_bytes,
                                          !.recv_size = @ - forwarded_bytes,
                                          !.rx_retries = @ + 1],
                                !.ret = i,
                                !.done = TRUE]
                ELSE [r2 EXCEPT !.f = [o EXCEPT !.recv_size = 0,
                                                !.recv_len = 0,
                                                !.state = IS_NONE]]
        ELSE r1

\* the iterations lo .. hi-1 of the loop in order, until one returns; the
\* range is halved so that the evaluation stays shallow
RECURSIVE RecvRange(_, _, _, _, _)
RecvRange(r, buf, lo, hi, k) ==
    IF r.done \/ lo >= hi THEN r
    ELSE IF hi = lo + 1 THEN Iteration(r, buf, lo, k)
    ELSE LET mid  == (lo + hi) \div 2
             left == RecvRange(r, buf, lo, mid, k)
         IN  RecvRange(left, buf, mid, hi, k)

\* after the loop: flush non-framed data and return size
RecvFlush(r, size) ==
    LET o == r.f
    IN  IF o.recv_size # 0 /\ o.recv_len = 0
        THEN [r EXCEPT !.other = Append(@, SubSeq(o.recv_buf, 1, o.recv_size)),
                       !.f = [o EXCEPT !.recv_size = 0],
                       !.ret = size]
        ELSE [r EXCEPT !.ret = size]

\* isn_frame_recv(drv, src, size, caller) at clock value now
isn_frame_recv(o, buf, k, now) ==
    LET o1 == RecvEnter(o, now)
        r  == [f |-> o1, child |-> << >>, other |-> << >>, ret |-> 0,
               done |-> FALSE]
    IN  IF Len(buf) = 0
        THEN [r EXCEPT !.f = [o1 EXCEPT !.rx_dropped = @ + 1], !.ret = 0]
        ELSE LET r1 == RecvRange(r, buf, 0, Len(buf), k)
             IN  IF r1.done THEN r1 ELSE RecvFlush(r1, Len(buf))

\* sizes of the buffer the parent hands to recv: nothing, all it holds but the
\* last byte, all it holds
ChunkSizes == {0, Len(wire) - 1, Len(wire)} \cap (0 .. Len(wire))

\* the parent calls obj->drv.recv with the first n bytes it holds and keeps
\* what recv did not report as consumed
Deliver ==
    /\ f.rx_retries < MaxRetries
    /\ \E n \in ChunkSizes, k \in Accepts :
        LET r == isn_frame_recv(f, SubSeq(wire, 1, n), k, clock)
        IN  /\ n > 0 \/ f.rx_dropped < MaxDropped
            /\ f' = r.f
            /\ child_rx' = child_rx \o r.child
            /\ other_rx' = other_rx \o r.other
            /\ frame_ret' = r.ret
            /\ wire' = SubSeq(wire, r.ret + 1, Len(wire))
            /\ g_cut_in' = IF TimedOut(f, clock) /\ f.state = IS_IN_MESSAGE
                           THEN g_cut_in + 1 ELSE g_cut_in
            /\ g_cut_fw' = IF TimedOut(f, clock) /\ f.state = IS_FW_MESSAGE
                           THEN g_cut_fw + 1 ELSE g_cut_fw
            /\ LET since  == isn_clock_diff(clock, f.last_ts)
                   inprog == f.state = IS_IN_MESSAGE
                   reset  == inprog /\ RecvEnter(f, clock).state = IS_NONE
                                    /\ RecvEnter(f, clock).rx_dropped
                                           = f.rx_dropped + 1
               IN  /\ g_kept_max' = IF inprog /\ ~reset /\ since > g_kept_max
                                     THEN since ELSE g_kept_max
                   /\ g_cut_min' = IF reset /\ (g_cut_min = -1 \/ since < g_cut_min)
                                    THEN since ELSE g_cut_min
    /\ UNCHANGED << g_sent, g_bad, g_hdr80 >>

(***************************************************************************)
(* Frame layer: runs of bytes outside any frame                            *)
(***************************************************************************)
\* lengths of the runs: one byte, the size of recv_buf, one more
NoiseLens == {1, ISN_FRAME_MAXSIZE, ISN_FRAME_MAXSIZE + 1}

\* n bytes none of which opens a frame (no byte above 0x80)
Noise(n) == [i \in 1 .. n |-> i % 128]

\* the line delivers a run of bytes that belong to no frame
PeerNoise ==
    /\ Len(g_sent) + g_bad < MaxFrames
    /\ \E n \in NoiseLens : wire' = wire \o Noise(n)
    /\ g_bad' = g_bad + 1
    /\ UNCHANGED << f, child_rx, other_rx, frame_ret, g_sent, g_hdr80,
                    g_cut_in, g_cut_fw, g_kept_max, g_cut_min >>

\* the object after a call of isn_frame_recv.  A write behind the end of
\* recv_buf is undefined: the bytes may land in unused memory, or in the
\* members declared behind the array (recv_size, recv_len, state)
RecvOutcomes(o) ==
    IF Len(o.recv_buf) <= ISN_FRAME_MAXSIZE THEN {o}
    ELSE {o} \cup { [o EXCEPT !.recv_size = s, !.recv_len = l] :
                      s \in {0, 1, ISN_FRAME_MAXSIZE},
                      l \in {0, 1, ISN_FRAME_MAXSIZE} }

\* the parent calls obj->drv.recv with all it holds or all but the last
\* byte, and keeps what recv did not report as consumed
DeliverRun ==
    /\ f.rx_retries < MaxRetries
    /\ Len(wire) > 0
    /\ \E n \in ChunkSizes \ {0}, k \in Accepts :
        LET r == isn_frame_recv(f, SubSeq(wire, 1, n), k, clock)
        IN  /\ f' \in RecvOutcomes(r.f)
            /\ child_rx' = child_rx \o r.child
            /\ other_rx' = other_rx \o r.other
            /\ frame_ret' = r.ret
            /\ wire' = SubSeq(wire, r.ret + 1, Len(wire))
    /\ UNCHANGED << g_sent, g_bad, g_hdr80, g_cut_in, g_cut_fw, g_kept_max,
                    g_cut_min >>

(***************************************************************************)
(* isn_frame_recv with its loop counter: for (uint8_t i=0; i<size; i++,    *)
(* buf++), one iteration per step                                          *)
(***************************************************************************)
\* sizes of the buffer handed to recv, around the range of the counter
LoopSizes == {1, 2, 255, 256}

\* size bytes made of Short frames with a one-byte payload
FrameRun(size) == [j \in 1 .. size |-> IF j % 2 = 1 THEN 192 ELSE 7]

VARIABLES
    lp        \* the call of isn_frame_recv in progress: src, i, buf - src

LoopInit ==
    lp = [buf |-> << >>, i |-> 0, off |-> 0, k |-> 0, pc |-> "idle",
          ret |-> 0, calls |-> 0]

\* the entry of isn_frame_recv up to the loop
RecvCall ==
    /\ lp.pc = "idle"
    /\ lp.calls < 1
    /\ \E size \in LoopSizes, k \in Accepts :
        /\ lp' = [lp EXCEPT !.buf = FrameRun(size), !.i = 0, !.off = 0,
                            !.k = k, !.pc = "loop", !.calls = @ + 1]
        /\ f' = RecvEnter(f, clock)
    /\ UNCHANGED << wire, child_rx, other_rx, frame_ret, g_sent, g_bad,
                    g_hdr80, g_cut_in, g_cut_fw, g_kept_max, g_cut_min >>

\* i++ on a uint8_t
NextIndex(i) == (i + 1) % 256

\* one iteration of the loop on a byte of the buffer
LoopIter ==
    /\ lp.pc = "loop"
    /\ lp.i < Len(lp.buf)
    /\ lp.off < Len(lp.buf)
    /\ LET r == Iteration([f |-> f, child |-> << >>, other |-> << >>,
                           ret |-> 0, done |-> FALSE], lp.buf, lp.off, lp.k)
       IN  /\ f' = r.f
           /\ child_rx' = child_rx \o r.child
           /\ other_rx' = other_rx \o r.other
           /\ IF r.done
              THEN /\ lp' = [lp EXCEPT !.pc = "done", !.ret = lp.i]
                   /\ frame_ret' = lp.i
              ELSE /\ lp' = [lp EXCEPT !.i = NextIndex(@), !.off = @ + 1]
                   /\ UNCHANGED frame_ret
    /\ UNCHANGED << wire, g_sent, g_bad, g_hdr80, g_cut_in, g_cut_fw,
                    g_kept_max, g_cut_min >>

\* the loop condition is false: flush and return size
LoopExit ==
    /\ lp.pc = "loop"
    /\ lp.i >= Len(lp.buf)
    /\ LET r == RecvFlush([f |-> f, child |-> << >>, other |-> << >>,
                           ret |-> 0, done |-> FALSE], Len(lp.buf))
       IN  /\ f' = r.f
           /\ other_rx' = other_rx \o r.other
           /\ frame_ret' = r.ret
           /\ lp' = [lp EXCEPT !.pc = "done", !.ret = r.ret]
    /\ UNCHANGED << wire, child_rx, g_sent, g_bad, g_hdr80, g_cut_in,
                    g_cut_fw, g_kept_max, g_cut_min >>

\* the loop condition holds and buf points behind the end of the buffer:
\* the next iteration reads memory that is not part of the input
LoopBeyond ==
    /\ lp.pc = "loop"
    /\ lp.i < Len(lp.buf)
    /\ lp.off >= Len(lp.buf)
    /\ lp' = [lp EXCEPT !.pc = "beyond"]
    /\ UNCHANGED frame_vars

\* what follows is undefined; one outcome is that the bytes found there
\* make the function return its counter, another that it never returns
BeyondReturn ==
    /\ lp.pc = "beyond"
    /\ \E i \in {0, 255} :
        /\ lp' = [lp EXCEPT !.pc = "done", !.ret = i]
        /\ frame_ret' = i
    /\ UNCHANGED << f, wire, child_rx, other_rx, g_sent, g_bad, g_hdr80,
                    g_cut_in, g_cut_fw, g_kept_max, g_cut_min >>

(***************************************************************************)
(* Wire-adjacent layers (isn_uart_udb.c, isn_usbuart.c, posix/isn_serial.c):*)
(* the single send buffer                                                  *)
(***************************************************************************)
TX_FIFO_SIZE        == 256
TXBUF_SIZE          == 64
MAXIMUM_PACKET_SIZE == 64

MaxTxRetries == 1   \* refused reserving getsendbuf calls counted per behaviour
MaxTxPackets == 1   \* non-empty sends counted per behaviour
BigSize      == 65  \* a requested size above the limit of the single buffers

Layers   == {"uart", "usbuart", "serial"}
BufSizes == {0, 1, BigSize}

\* a null pointer; &tx_buf[i] is held as i, obj->txbuf and driver->tx_buf as 0
NULL == -1

VARIABLES
    buf,        \* the layer object and, for the UART, the FIFO indices
    buf_dest,   \* *dest as the last getsendbuf left it
    buf_ret,    \* value returned by the last getsendbuf or send
    g_held      \* history: reserving getsendbuf successes since the last send
                \* or free on the layer

buf_vars == << buf, buf_dest, buf_ret, g_held >>

\* isn_uart_init / isn_usbuart_init / isn_serial_driver_create, and the
\* initial values of the UART's static FIFO indices
BufInit(layer) ==
    /\ buf = [layer |-> layer, buf_locked |-> 0,
              txb_wri |-> 0, txb_rdi |-> 0, txb_wrw |-> 255,
              txb_alloc_wrw |-> 255, txb_alloc_wri |-> 255,
              txb_alloc_size |-> 0,
              tx_retries |-> 0, tx_packets |-> 0, tx_counter |-> 0]
    /\ buf_dest = NULL
    /\ buf_ret = 0
    /\ g_held = 0

\* a getsendbuf that finds no buffer locked regardless of buf_locked
BufAvailableAlways(b) == TRUE

\* if (!obj->buf_locked)
BufAvailable(b) == b.buf_locked = 0

\* the tail of getsendbuf when no buffer is handed out
Refused(b, want, counted) ==
    [b    |-> [b EXCEPT !.tx_retries = IF want /\ counted THEN @ + 1 ELSE @],
     dest |-> IF want THEN NULL ELSE buf_dest,
     ret  |-> -1]

\* isn_uart_getsendbuf(drv, dest, size, caller); want is dest != NULL
isn_uart_getsendbuf(b, want, size) ==
    IF BufAvailable(b) THEN
        LET txb_cur_rdi == b.txb_rdi
            free_start  == txb_cur_rdi
            free_end    == (TX_FIFO_SIZE - 1) - b.txb_wri
            a == IF txb_cur_rdi > b.txb_wri
                 THEN [size |-> Min(size, txb_cur_rdi - b.txb_wri - 1),
                       wrw  |-> b.txb_wrw, wri |-> b.txb_wri]
                 ELSE IF size < free_end \/ free_end >= free_start
                 THEN [size |-> Min(size, free_end),
                       wrw  |-> (b.txb_wri + Min(size, free_end)) % 256,
                       wri  |-> b.txb_wri]
                 ELSE IF free_start > 0
                 THEN [size |-> Min(size, free_start - 1),
                       wrw  |-> b.txb_wri, wri |-> 0]
                 ELSE [size |-> 0, wrw |-> b.txb_wrw, wri |-> b.txb_wri]
            b1 == [b EXCEPT !.txb_alloc_wrw = a.wrw, !.txb_alloc_wri = a.wri]
        IN  IF a.size > 0
            THEN [b    |-> [b1 EXCEPT !.buf_locked = IF want THEN 1 ELSE @,
                                      !.txb_alloc_size = a.size % 256],
                  dest |-> IF want THEN a.wri ELSE buf_dest,
                  ret  |-> a.size % 256]
            ELSE Refused(b1, want, TRUE)
    ELSE Refused(b, want, TRUE)

\* isn_usbuart_getsendbuf; ready is what USBUART_CDCIsReady() answers
isn_usbuart_getsendbuf(b, want, size, ready) ==
    IF BufAvailable(b) /\ ready
    THEN [b    |-> [b EXCEPT !.buf_locked = IF want THEN 1 ELSE @],
          dest |-> IF want THEN 0 ELSE buf_dest,
          ret  |-> IF size > TXBUF_SIZE THEN TXBUF_SIZE ELSE size]
    ELSE Refused(b, want, FALSE)

\* get_send_buf of posix/isn_serial.c
get_send_buf(b, want, size) ==
    IF BufAvailable(b)
    THEN [b    |-> [b EXCEPT !.buf_locked = IF want THEN 1 ELSE @],
          dest |-> IF want THEN 0 ELSE buf_dest,
          ret  |-> IF size > MAXIMUM_PACKET_SIZE
                   THEN MAXIMUM_PACKET_SIZE ELSE size]
    ELSE Refused(b, want, FALSE)

\* drv->getsendbuf(drv, dest, size, caller) on the layer
GetSendBuf ==
    \E want \in BOOLEAN, size \in BufSizes, ready \in BOOLEAN :
        LET r == IF buf.layer = "uart" THEN isn_uart_getsendbuf(buf, want, size)
                 ELSE IF buf.layer = "usbuart"
                 THEN isn_usbuart_getsendbuf(buf, want, size, ready)
                 ELSE get_send_buf(buf, want, size)
        IN  /\ r.b.tx_retries <= MaxTxRetries
            /\ buf' = r.b
            /\ buf_dest' = r.dest
            /\ buf_ret' = r.ret
            /\ g_held' = IF want /\ r.dest # NULL THEN g_held + 1 ELSE g_held

\* drv->getsendbuf of the wire-adjacent layer b
WireGetSendBuf(b, want, size, ready) ==
    IF b.layer = "uart" THEN isn_uart_getsendbuf(b, want, size)
    ELSE IF b.layer = "usbuart" THEN isn_usbuart_getsendbuf(b, want, size, ready)
    ELSE get_send_buf(b, want, size)

\* isn_frame_getsendbuf of a frame layer whose parent is the wire-adjacent
\* layer b: a byte more for the header and one for the CRC
isn_frame_getsendbuf(b, crc_enabled, want, size, ready) ==
    LET xs == 1 + crc_enabled
        p  == WireGetSendBuf(b, want, Min(size, ISN_FRAME_MAXSIZE) + xs, ready)
    IN  [b    |-> p.b,
         dest |-> IF want /\ p.dest # NULL THEN p.dest + 1 ELSE p.dest,
         ret  |-> p.ret - xs]

PROTO_SIZE == 2

\* isn_trans_getsendbuf of a transport layer whose parent is that frame
\* layer; known is whether the caller is found in the dispatch table
isn_trans_getsendbuf(b, crc_enabled, known, want, size, ready) ==
    IF ~known THEN [b |-> b, dest |-> buf_dest, ret |-> 0]
    ELSE LET p == isn_frame_getsendbuf(b, crc_enabled, want,
                                       size + PROTO_SIZE, ready)
         IN  [b    |-> p.b,
              dest |-> IF want /\ p.dest # NULL
                       THEN p.dest + PROTO_SIZE ELSE p.dest,
              ret  |-> p.ret - PROTO_SIZE]

\* getsendbuf called on the frame layer above the wire-adjacent layer
FrameGetSendBuf ==
    \E want \in BOOLEAN, size \in BufSizes, ready \in BOOLEAN :
        LET r == isn_frame_getsendbuf(buf, f.crc_enabled, want, size, ready)
        IN  /\ r.b.tx_retries <= MaxTxRetries
            /\ buf' = r.b
            /\ buf_dest' = r.dest
            /\ buf_ret' = r.ret
            /\ g_held' = IF want /\ r.dest # NULL THEN g_held + 1 ELSE g_held

\* getsendbuf called on the transport layer above the frame layer
TransGetSendBuf ==
    \E known \in BOOLEAN, want \in BOOLEAN, size \in BufSizes, ready \in BOOLEAN :
        LET r == isn_trans_getsendbuf(buf, f.crc_enabled, known, want, size, ready)
        IN  /\ r.b.tx_retries <= MaxTxRetries
            /\ buf' = r.b
            /\ buf_dest' = r.dest
            /\ buf_ret' = r.ret
            /\ g_held' = IF known /\ want /\ r.dest # NULL
                        THEN g_held + 1 ELSE g_held

\* the pointer the holder of the buffer was given
HeldPtr(b) == IF b.layer = "uart" THEN b.txb_alloc_wri ELSE 0

\* pointers handed to free and send: none, the buffer, another address
Ptrs == {NULL, HeldPtr(buf), 1}

\* isn_uart_free / isn_usbuart_free / free_send_buf: the lock is dropped
\* when ptr is the address of the buffer
FreeBuf(b, ptr) ==
    IF ptr = HeldPtr(b) THEN [b EXCEPT !.buf_locked = 0] ELSE b

\* drv->free(drv, ptr) on the layer
Free ==
    /\ \E ptr \in Ptrs : buf' = FreeBuf(buf, ptr)
    /\ g_held' = 0
    /\ UNCHANGED << buf_dest, buf_ret >>

\* isn_uart_send(drv, dest, size), size <= txb_alloc_size
isn_uart_send(b, dest, size) ==
    IF size # 0
    THEN [b EXCEPT !.txb_wrw = b.txb_alloc_wrw,
                   !.txb_wri = (b.txb_alloc_wri + size) % 256,
                   !.tx_counter = @ + size,
                   !.tx_packets = @ + 1,
                   !.buf_locked = 0]
    ELSE b

\* isn_usbuart_send(drv, dest, size), size <= TXBUF_SIZE
isn_usbuart_send(b, dest, size) ==
    FreeBuf(IF size # 0
            THEN [b EXCEPT !.tx_counter = @ + size, !.tx_packets = @ + 1]
            ELSE b, dest)

\* send_buf of posix/isn_serial.c; written is what write() returned
send_buf(b, dest, written) ==
    IF written = -1 THEN b ELSE FreeBuf(b, dest)

\* the largest size send accepts
SendLimit(b) ==
    IF b.layer = "uart" THEN b.txb_alloc_size
    ELSE IF b.layer = "usbuart" THEN TXBUF_SIZE
    ELSE MAXIMUM_PACKET_SIZE

\* drv->send(drv, dest, size) on the layer
Send ==
    /\ \E dest \in Ptrs, size \in {0, 1, SendLimit(buf)} \cap (0 .. SendLimit(buf)),
          written_all \in BOOLEAN :
        LET written == IF written_all THEN size ELSE -1
            b1 == IF buf.layer = "uart" THEN isn_uart_send(buf, dest, size)
                  ELSE IF buf.layer = "usbuart"
                  THEN isn_usbuart_send(buf, dest, size)
                  ELSE send_buf(buf, dest, written)
        IN  /\ b1.tx_packets <= MaxTxPackets
            /\ buf' = b1
            /\ buf_ret' = IF buf.layer = "serial" THEN written ELSE size
    /\ g_held' = 0
    /\ UNCHANGED buf_dest

\* tx_isr__ of isn_uart_udb.c passes one byte of the FIFO to the transmitter
tx_isr__ ==
    /\ buf.layer = "uart"
    /\ buf.txb_rdi # buf.txb_wri
    /\ LET rdi == IF buf.txb_rdi = buf.txb_wrw THEN 0 ELSE buf.txb_rdi
       IN  buf' = [buf EXCEPT !.txb_rdi = (rdi + 1) % 256]
    /\ UNCHANGED << buf_dest, buf_ret, g_held >>

(***************************************************************************)
(* Long frame layer (isn_frame_long.c)                                     *)
(***************************************************************************)
ISN_FRAME_LONG_MAXSIZE    == 4096
ISN_FRAME_LONG_HEADER     == 2
ISN_FRAME_LONG_FOOTER     == 2
ISN_FRAME_LONG_OVERHEAD   == ISN_FRAME_LONG_HEADER + ISN_FRAME_LONG_FOOTER
CRC16_CCITT_INITVALUE     == 65535
\* isn_def.h is not part of the sources at hand: the tag in the top four bits
\* of the first header byte, as the protocol description gives it (0xDx)
ISN_PROTO_FRAME_LONG      == 208
ISN_PROTO_FRAME_LONG_MASK == 240

LS_NONE        == 0
LS_IN_PROTOCOL == 1
LS_IN_MESSAGE  == 2
LS_IN_CRC      == 3
LS_FW_MESSAGE  == 4

MaxLongFrames == 1     \* Long frames put on the wire per behaviour
LongChunk     == 255   \* most bytes the parent hands to recv in one call

\* ccitt_crc16_table of isn_frame_long.c
CCITT_CRC16_TABLE ==
    <<
       0, 4129, 8258, 12387, 16516, 20645, 24774, 28903,
       33032, 37161, 41290, 45419, 49548, 53677, 57806, 61935,
       4657, 528, 12915, 8786, 21173, 17044, 29431, 25302,
       37689, 33560, 45947, 41818, 54205, 50076, 62463, 58334,
       9314, 13379, 1056, 5121, 25830, 29895, 17572, 21637,
       42346, 46411, 34088, 38153, 58862, 62927, 50604, 54669,
       13907, 9842, 5649, 1584, 30423, 26358, 22165, 18100,
       46939, 42874, 38681, 34616, 63455, 59390, 55197, 51132,
       18628, 22757, 26758, 30887, 2112, 6241, 10242, 14371,
       51660, 55789, 59790, 63919, 35144, 39273, 43274, 47403,
       23285, 19156, 31415, 27286, 6769, 2640, 14899, 10770,
       56317, 52188, 64447, 60318, 39801, 35672, 47931, 43802,
       27814, 31879, 19684, 23749, 11298, 15363, 3168, 7233,
       60846, 64911, 52716, 56781, 44330, 48395, 36200, 40265,
       32407, 28342, 24277, 20212, 15891, 11826, 7761, 3696,
       65439, 61374, 57309, 53244, 48923, 44858, 40793, 36728,
       37256, 33193, 45514, 41451, 53516, 49453, 61774, 57711,
       4224, 161, 12482, 8419, 20484, 16421, 28742, 24679,
       33721, 37784, 41979, 46042, 49981, 54044, 58239, 62302,
       689, 4752, 8947, 13010, 16949, 21012, 25207, 29270,
       46570, 42443, 38312, 34185, 62830, 58703, 54572, 50445,
       13538, 9411, 5280, 1153, 29798, 25671, 21540, 17413,
       42971, 47098, 34713, 38840, 59231, 63358, 50973, 55100,
       9939, 14066, 1681, 5808, 26199, 30326, 17941, 22068,
       55628, 51565, 63758, 59695, 39368, 35305, 47498, 43435,
       22596, 18533, 30726, 26663, 6336, 2273, 14466, 10403,
       52093, 56156, 60223, 64286, 35833, 39896, 43963, 48026,
       19061, 23124, 27191, 31254, 2801, 6864, 10931, 14994,
       64814, 60687, 56684, 52557, 48554, 44427, 40424, 36297,
       31782, 27655, 23652, 19525, 15522, 11395, 7392, 3265,
       61215, 65342, 53085, 57212, 44955, 49082, 36825, 40952,
       28183, 32310, 20053, 24180, 11923, 16050, 3793, 7920
    >>

\* crc16_ccitt(crc, c) with the lookup table, in uint16_t arithmetic
crc16_ccitt(crc, c) ==
    LET pos == BitXor(crc \div 256, c) % 256
    IN  BitXor((crc * 256) % 65536, CCITT_CRC16_TABLE[pos + 1])

\* payload lengths handed to the Long frame layer's send: the smallest and
\* the two around the range of an 8-bit counter
LongLens == {1, 255, 256}
LongPayload(n) == [i \in 1 .. n |-> (i * 67) % 256]

VARIABLES
    lf,          \* isn_frame_long_t of the Long frame layer
    lwire,       \* bytes the parent holds and has not yet got consumed by recv
    lchild_rx,   \* pieces accepted by child->recv, in order
    lother_rx,   \* pieces handed to other->recv, in order
    lframe_ret,  \* value returned by the last isn_frame_long_recv
    g_lsent,     \* history: payloads handed to isn_frame_long_send, in order
    g_lcut,      \* history: a timeout has reset a frame being received
    lgsb         \* the last isn_frame_long_getsendbuf: size asked, buffer
                 \* wanted, room of the parent, size the parent was asked
                 \* for, value returned, buffer handed out, buffer
                 \* still held

long_vars == << lf, lwire, lchild_rx, lother_rx, lframe_ret, g_lsent, g_lcut,
                lgsb >>

\* isn_frame_long_init(obj, child, other, parent, timeout)
isn_frame_long_init ==
    /\ lf = [frame_timeout |-> FrameTimeout, state |-> LS_NONE, crc |-> 0,
             recv_buf |-> << >>, recv_size |-> 0, recv_len |-> 0,
             recv_fwed |-> 0, last_ts |-> 0,
             rx_packets |-> 0, rx_counter |-> 0, rx_errors |-> 0,
             rx_dropped |-> 0, rx_retries |-> 0,
             tx_packets |-> 0, tx_counter |-> 0]
    /\ lwire = << >>
    /\ lchild_rx = << >>
    /\ lother_rx = << >>
    /\ lframe_ret = 0
    /\ g_lsent = << >>
    /\ g_lcut = FALSE
    /\ lgsb = [size |-> 0, want |-> FALSE, room |-> 0, asked |-> 0,
               ret |-> 0, dest |-> FALSE, held |-> FALSE]

\* for (i = lo; i < hi; i++) crc = crc16_ccitt(crc, start[i]); the range is
\* halved and the left half evaluated first so that the evaluation stays shallow
RECURSIVE Crc16Range(_, _, _, _)
Crc16Range(crc, bytes, lo, hi) ==
    IF lo >= hi THEN crc
    ELSE IF hi = lo + 1 THEN crc16_ccitt(crc, bytes[lo + 1])
    ELSE LET mid  == (lo + hi) \div 2
             left == Crc16Range(crc, bytes, lo, mid)
         IN  IF left >= 0 THEN Crc16Range(left, bytes, mid, hi) ELSE left

\* the bytes isn_frame_long_send hands to parent->send
LongFrameBytes(payload) ==
    LET size == Len(payload)
        head == << BitOr(ISN_PROTO_FRAME_LONG, ((size - 1) \div 256) % 256),
                   (size - 1) % 256 >>
        body == head \o payload
        crc  == Crc16Range(CRC16_CCITT_INITVALUE, body, 0,
                           size + ISN_FRAME_LONG_HEADER)
    IN  body \o << crc \div 256, crc % 256 >>

\* the frames isn_frame_long_send produces for the lengths explored
LongSentFrames == [n \in LongLens |-> LongFrameBytes(LongPayload(n))]

\* sizes asked of getsendbuf, up to the largest and one more, and what the
\* parent can give: nothing, a few bytes, room for the largest frame, more
LongSizes   == LongLens \cup {ISN_FRAME_LONG_MAXSIZE, ISN_FRAME_LONG_MAXSIZE + 1}
ParentRooms == {-1, ISN_FRAME_LONG_OVERHEAD + 1,
                ISN_FRAME_LONG_MAXSIZE + ISN_FRAME_LONG_OVERHEAD,
                ISN_FRAME_LONG_MAXSIZE + ISN_FRAME_LONG_OVERHEAD + 1}

\* a getsendbuf that passes the size on as it is
LongNoLimit(size) == size

\* if (size > ISN_FRAME_LONG_MAXSIZE) size = ISN_FRAME_LONG_MAXSIZE
LongLimit(size) ==
    IF size > ISN_FRAME_LONG_MAXSIZE THEN ISN_FRAME_LONG_MAXSIZE ELSE size

\* obj->parent->getsendbuf: -1 and no buffer when it has none free, else
\* the size asked or the smaller one it has room for
ParentGetSendBuf(want, asked, room) ==
    IF room < 0 THEN [ret |-> -1, dest |-> FALSE]
    ELSE [ret |-> Min(asked, room), dest |-> want]

\* isn_frame_long_getsendbuf(drv, dest, size, caller); want is dest != NULL
isn_frame_long_getsendbuf ==
    /\ Len(g_lsent) < MaxLongFrames
    /\ ~lgsb.held
    /\ \E want \in BOOLEAN, size \in LongSizes, room \in ParentRooms :
        LET asked == LongLimit(size) + ISN_FRAME_LONG_OVERHEAD
            p     == ParentGetSendBuf(want, asked, room)
        IN  lgsb' = [size |-> size, want |-> want, room |-> room,
                     asked |-> asked,
                     ret |-> p.ret - ISN_FRAME_LONG_OVERHEAD,
                     dest |-> p.dest, held |-> p.dest]
    /\ UNCHANGED << lf, lwire, lchild_rx, lother_rx, lframe_ret, g_lsent,
                    g_lcut >>

\* isn_frame_long_free(drv, ptr) with the buffer obtained from getsendbuf
isn_frame_long_free ==
    /\ lgsb.held
    /\ lgsb' = [lgsb EXCEPT !.held = FALSE]
    /\ UNCHANGED << lf, lwire, lchild_rx, lother_rx, lframe_ret, g_lsent,
                    g_lcut >>

\* isn_frame_long_send(drv, dest, size) with the buffer and the size obtained
\* from getsendbuf; the parent passes the bytes on
isn_frame_long_send ==
    /\ Len(g_lsent) < MaxLongFrames
    /\ lgsb.held
    /\ lgsb.ret \in LongLens
    /\ lwire' = lwire \o LongSentFrames[lgsb.ret]
    /\ lf' = [lf EXCEPT !.tx_counter = @ + lgsb.ret, !.tx_packets = @ + 1]
    /\ g_lsent' = Append(g_lsent, LongPayload(lgsb.ret))
    /\ lgsb' = [lgsb EXCEPT !.held = FALSE]
    /\ UNCHANGED << lchild_rx, lother_rx, lframe_ret, g_lcut >>

\* the entry of isn_frame_long_recv: timeout handling and the new timestamp
LongRecvEnter(o, now) ==
    LET o1 == IF o.state # LS_FW_MESSAGE /\ TimedOut(o, now)
              THEN [o EXCEPT !.state = LS_NONE,
                             !.rx_dropped = IF o.recv_len # 0 THEN @ + 1 ELSE @,
                             !.recv_size = 0, !.recv_len = 0]
              ELSE o
    IN  [o1 EXCEPT !.last_ts = now]

\* the switch on obj->state for the byte b at index r.i; recv_size is a
\* uint8_t, recv_len and crc are uint16_t
LongByteStep(r, b) ==
    LET o == r.f
    IN  IF o.state = LS_NONE THEN
            IF BitAnd(b, ISN_PROTO_FRAME_LONG_MASK) = ISN_PROTO_FRAME_LONG THEN
                [r EXCEPT
                   !.other = IF o.recv_size # 0
                             THEN Append(@, SubSeq(o.recv_buf, 1, o.recv_size))
                             ELSE @,
                   !.f = [o EXCEPT
                            !.state = LS_IN_PROTOCOL,
                            !.crc = crc16_ccitt(CRC16_CCITT_INITVALUE, b),
                            !.recv_size = 0,
                            !.recv_len =
                                BitClear(b, ISN_PROTO_FRAME_LONG_MASK) * 256],
                   !.i = @ + 1]
            ELSE [r EXCEPT !.f = [o EXCEPT
                                   !.recv_buf = WriteBuf(@, o.recv_size, b),
                                   !.recv_size = (@ + 1) % 256],
                           !.i = @ + 1]
        ELSE IF o.state = LS_IN_PROTOCOL THEN
            [r EXCEPT !.f = [o EXCEPT !.state = LS_IN_MESSAGE,
                                      !.crc = crc16_ccitt(o.crc, b),
                                      !.recv_len = (BitOr(@, b) + 1) % 65536],
                      !.i = @ + 1]
        ELSE IF o.state = LS_IN_MESSAGE THEN
            IF o.recv_size = o.recv_len
            THEN [r EXCEPT !.f = [o EXCEPT !.state = LS_IN_CRC,
                                           !.crc = BitXor(@, b * 256)],
                           !.i = @ + 1]
            ELSE [r EXCEPT !.f = [o EXCEPT
                                   !.recv_buf = WriteBuf(@, o.recv_size, b),
                                   !.recv_size = (@ + 1) % 256,
                                   !.crc = crc16_ccitt(o.crc, b)],
                           !.i = @ + 1]
        ELSE IF o.state = LS_IN_CRC THEN
            IF BitXor(o.crc, b) = 0
            THEN [r EXCEPT !.f = [o EXCEPT !.crc = 0,
                                           !.state = LS_FW_MESSAGE,
                                           !.recv_fwed = 0,
                                           !.rx_packets = @ + 1,
                                           !.rx_counter = @ + o.recv_size],
                           !.i = @ + 1]
            ELSE [r EXCEPT !.f = [o EXCEPT !.crc = BitXor(o.crc, b),
                                           !.rx_errors = @ + 1,
                                           !.recv_size = 0, !.recv_len = 0,
                                           !.state = LS_NONE],
                           !.i = @ + 1]
        ELSE r

\* one iteration of the for loop of isn_frame_long_recv; k is the number of
\* bytes the child takes per call.  r = [f, child, other, i, ret, done]
LongIteration(r, src, k) ==
    LET r1 == LongByteStep(r, src[r.i + 1])
        o  == r1.f
    IN  IF o.state = LS_FW_MESSAGE THEN
            LET forwarded_bytes == Min(k, o.recv_size)
                piece == SubSeq(o.recv_buf, o.recv_fwed + 1,
                                o.recv_fwed + forwarded_bytes)
                r2 == [r1 EXCEPT !.child = IF forwarded_bytes > 0
                                           THEN Append(@, piece) ELSE @]
            IN  IF forwarded_bytes < o.recv_size
                THEN [r2 EXCEPT !.f = [o EXCEPT
                                  !.recv_fwed = (@ + forwarded_bytes) % 256,
                                  !.recv_size = @ - forwarded_bytes,
                                  !.rx_retries = @ + 1],
                                !.ret = r1.i,
                                !.done = TRUE]
                ELSE [r2 EXCEPT !.f = [o EXCEPT !.recv_size = 0,
                                                !.recv_len = 0,
                                                !.state = LS_NONE]]
        ELSE r1

\* up to n iterations of the loop in order, until i reaches size or one
\* returns; n is halved so that the evaluation stays shallow
RECURSIVE LongLoop(_, _, _, _)
LongLoop(r, src, n, k) ==
    IF r.done \/ r.i >= Len(src) \/ n = 0 THEN r
    ELSE IF n = 1 THEN LongIteration(r, src, k)
    ELSE LET left == LongLoop(r, src, n \div 2, k)
         IN  LongLoop(left, src, n - n \div 2, k)

\* isn_frame_long_recv(drv, src, size, caller) at clock value now, for a
\* buffer of at most 255 bytes (the loop index is a uint8_t)
isn_frame_long_recv(o, src, k, now) ==
    LET o1 == LongRecvEnter(o, now)
        r  == [f |-> o1, child |-> << >>, other |-> << >>, i |-> 0,
               ret |-> 0, done |-> FALSE]
    IN  IF Len(src) = 0
        THEN [r EXCEPT !.f = [o1 EXCEPT !.rx_dropped = @ + 1], !.ret = 0]
        ELSE LET r1 == LongLoop(r, src, 2 * Len(src), k)
             IN  IF r1.done THEN r1 ELSE RecvFlush(r1, Len(src))

\* sizes of the buffer the parent hands to recv: nothing, all it can hand
\* over but the last byte, all it can hand over
LongChunkSizes ==
    LET most == Min(Len(lwire), LongChunk)
    IN  {0, most - 1, most} \cap (0 .. most)

\* the parent calls obj->drv.recv with the first n bytes it holds and keeps
\* what recv did not report as consumed
LongDeliver ==
    /\ lf.rx_retries < MaxRetries
    /\ \E n \in LongChunkSizes, k \in {1, ISN_FRAME_LONG_MAXSIZE} :
        LET r == isn_frame_long_recv(lf, SubSeq(lwire, 1, n), k, clock)
        IN  /\ n > 0 \/ lf.rx_dropped < MaxDropped
            /\ lf' = r.f
            /\ lchild_rx' = lchild_rx \o r.child
            /\ lother_rx' = lother_rx \o r.other
            /\ lframe_ret' = r.ret
            /\ lwire' = SubSeq(lwire, r.ret + 1, Len(lwire))
            /\ g_lcut' = (g_lcut \/ (lf.state \notin {LS_NONE, LS_FW_MESSAGE}
                                      /\ TimedOut(lf, clock)))
    /\ UNCHANGED << g_lsent, lgsb >>

(***************************************************************************)
(* Message layer (isn_msg.c), built with CONFIG_ISN_MSG_FAST_LOADING 0 and *)
(* CONFIG_ISN_MSG_SINGLE_QUERY 0 (the defaults of isn_msg.h) and without    *)
(* TODO_CLARIFY_WITH_IDM.  A packet is the sequence of its bytes.          *)
(***************************************************************************)
ISN_PROTO_MSG == 127
ISN_MSG_NUM_LAST == 127
ISN_MSG_NUM_ID == 0
ISN_MSG_PRI_DESCRIPTION == 31
ISN_MSG_PRI_DESCRIPTIONLOW == 30
ISN_MSG_PRI_QUERY_ARGS == 27
ISN_MSG_PRI_QUERY_WAIT == 26
ISN_MGG_PRI_UPDATE_ARGS == 25
ISN_MSG_PRI_HIGHEST == 15
ISN_MSG_PRI_LOW == 1
ISN_MSG_PRI_CLEAR == 0
\* isn_msg_received_msgnum when the receive buffer is free
NO_MSGNUM == 255
\* flags bit of a descriptor packet
DESC_FLAG == 128

MaxMsgOps == 4
MsgTableSize == 3

\* The message table of the device: size of the arguments, whether there is
\* a handler, and the descriptor string.  The last entry is the
\* ISN_MSG_DESC_END entry { pri, 0, NULL, "%!" }.
MsgTable ==
    [n \in 0 .. MsgTableSize - 1 |->
        CASE n = 0 -> [size |-> 2, handler |-> TRUE,  desc |-> << 37, 84 >>]
          [] n = 1 -> [size |-> 8, handler |-> TRUE,  desc |-> << 37, 85, 56 >>]
          [] OTHER -> [size |-> 0, handler |-> FALSE, desc |-> << 37, 33 >>]]

MsgSlots == 0 .. MsgTableSize - 1

\* the arguments the peer sends for a slot, and those the handler returns
PeerArgs(n, len) == [i \in 1 .. len |-> 16 * (n % 8) + i]
HandlerData(n) == [i \in 1 .. MsgTable[n].size |-> 160 + 16 * n + i]

\* the handler's return: NULL (an empty sequence stands for no pointer,
\* told apart by the flag) or a pointer to its arguments
HandlerReturns == {FALSE, TRUE}

\* priorities an application posts
PostPriorities ==
    {ISN_MSG_PRI_CLEAR, ISN_MSG_PRI_LOW, ISN_MSG_PRI_HIGHEST,
     ISN_MGG_PRI_UPDATE_ARGS, ISN_MSG_PRI_QUERY_ARGS,
     ISN_MSG_PRI_DESCRIPTION}

\* message ids an application posts: every slot and one outside the table
PostIds == MsgSlots \cup {MsgTableSize}

\* priorities the user's table may start with
TablePriorities == {ISN_MSG_PRI_CLEAR, ISN_MSG_PRI_LOW}

\* room the parent has: none, the two bytes of a query, or enough for all
MsgRooms == {-1, 2, 66}

\* resend_queries timeouts
ResendTimeouts == {0, 1}

\* packets the parent hands to isn_message_recv
RecvPackets ==
    {<< ISN_PROTO_MSG >>, << 0, 1 >>}
    \cup {<< ISN_PROTO_MSG, n >> : n \in {0, 1, 2, 3, ISN_MSG_NUM_LAST}}
    \cup {<< ISN_PROTO_MSG, DESC_FLAG + ISN_MSG_NUM_LAST >>}
    \cup {<< ISN_PROTO_MSG, DESC_FLAG + n >> : n \in {1, 2, 3}}
    \cup {<< ISN_PROTO_MSG, n >> \o PeerArgs(n, MsgTable[n].size) : n \in {0, 1}}
    \cup {<< ISN_PROTO_MSG, 1, 9 >>, << ISN_PROTO_MSG, 3, 9, 9 >>,
          << ISN_PROTO_MSG, DESC_FLAG + 5, 9 >>}

VARIABLES
    m,        \* isn_message_t and the priority column of its table
    m_log,    \* the last call: what it was, the state before, what it did
    m_ops,    \* number of calls made
    m_hist    \* the calls made so far, where a scenario is followed

msg_vars == << m, m_log, m_ops, m_hist >>

\* sanity_check: clear pending messages that have no payload
sanity_check(pri) ==
    [n \in MsgSlots |->
        IF pri[n] > ISN_MSG_PRI_CLEAR /\ MsgTable[n].size = 0
        THEN ISN_MSG_PRI_CLEAR ELSE pri[n]]

\* isn_msg_init(obj, messages, size, parent) in a build with
\* CONFIG_ISN_MSG_FAST_LOADING set to fast
isn_msg_init(pri, fast) ==
    /\ m = [pri |-> sanity_check(pri),
            fast_loading |-> fast,
            isn_msg_received_msgnum |-> NO_MSGNUM,
            isn_msg_received_data |-> << >>,
            handler_msgnum |-> -1,
            handler_priority |-> 0,
            pending |-> 1,
            active |-> 0,
            lock |-> 0,
            msgnum |-> 0,
            resend_timer |-> 0,
            rx_packets |-> 0, rx_dropped |-> 0,
            tx_packets |-> 0, tx_dropped |-> 0, tx_retries |-> 0]
    /\ m_log = [op |-> "init", pre |-> << >>, arg |-> << >>, room |-> 0,
                picked |-> -1, out |-> << >>, calls |-> << >>, ret |-> 0]
    /\ m_ops = 0
    /\ m_hist = << >>

\* obj->parent_driver->getsendbuf(parent, dest, size, obj)
MsgGetSendBuf(size, room) == ParentGetSendBuf(TRUE, size, room).ret

\* send_packet(obj, msgflags, data, size): the state and the packet sent
send_packet(o, msgflags, data, room) ==
    LET xsize == Len(data) + 2
    IN  IF MsgGetSendBuf(xsize, room) = xsize
        THEN [o |-> [o EXCEPT !.tx_packets = @ + 1],
              out |-> << << ISN_PROTO_MSG, msgflags >> \o data >>]
        ELSE [o |-> [o EXCEPT !.tx_dropped = @ + 1], out |-> << >>]

\* the test of isn_msg_sendnext's loop on a pending slot: all slots pass
MsgPickablePending(o, c) == TRUE

\* the same test without the lock
MsgPickableUnlocked(o, c) ==
    \/ o.pri[c] # ISN_MSG_PRI_QUERY_WAIT
    \/ c = o.isn_msg_received_msgnum

\* the test of isn_msg_sendnext's loop on a pending slot
MsgPickable(o, c) ==
    \/ o.pri[c] # ISN_MSG_PRI_QUERY_WAIT /\ o.lock = 0
    \/ c = o.isn_msg_received_msgnum

\* the loop of isn_msg_sendnext: i iterations done, cursor cur, act active
RECURSIVE MsgScan(_, _, _, _)
MsgScan(o, i, cur, act) ==
    IF i >= MsgTableSize
    THEN [msgnum |-> cur, active |-> act, picked |-> FALSE]
    ELSE LET c == IF cur >= MsgTableSize THEN 0 ELSE cur
         IN  IF o.pri[c] > 0
             THEN IF MsgPickable(o, c)
                  THEN [msgnum |-> c, active |-> act + 1, picked |-> TRUE]
                  ELSE MsgScan(o, i + 1, c + 1, act + 1)
             ELSE MsgScan(o, i + 1, c + 1, act)

\* required_size of the picked slot
RequiredSize(n, pr) ==
    IF pr >= ISN_MSG_PRI_DESCRIPTIONLOW THEN Len(MsgTable[n].desc) + 2
    ELSE IF pr = ISN_MSG_PRI_QUERY_ARGS THEN 2
    ELSE MsgTable[n].size + 2

\* "Set and release locks"
MsgLocks(o, n, pr) ==
    IF o.isn_msg_received_msgnum = o.lock THEN [o EXCEPT !.lock = 0]
    ELSE IF pr = ISN_MGG_PRI_UPDATE_ARGS
         THEN [o EXCEPT !.lock = n, !.resend_timer = 0]
         ELSE o

\* a reply to every handler that returns data
ReplyAlways(pr) == TRUE

\* "Do not reply back if request for data was done from our side"
ReplyWanted(pr) ==
    /\ pr # ISN_MSG_PRI_QUERY_WAIT
    /\ pr # ISN_MSG_PRI_QUERY_ARGS

\* isn_msg_sendnext(obj) with the parent's room and the handler's return;
\* gives the state, the return value, the packets sent, the handler calls
\* (slot, whether input was passed, the input) and the slot picked
isn_msg_sendnext(o0, room, hret) ==
    LET sc == MsgScan(o0, 0, o0.msgnum, 0)
        o1 == [o0 EXCEPT !.msgnum = sc.msgnum, !.active = sc.active]
        n  == sc.msgnum
    IN  IF ~sc.picked
        THEN [o |-> o1, ret |-> 0, out |-> << >>, calls |-> << >>,
              picked |-> -1]
        ELSE
        LET pr  == o1.pri[n]
            req == RequiredSize(n, pr)
        IN  IF MsgGetSendBuf(req, room) # req
            THEN [o |-> o1, ret |-> 1, out |-> << >>, calls |-> << >>,
                  picked |-> n]
            ELSE
            LET o2 == MsgLocks(o1, n, pr)
                staged == n = o2.isn_msg_received_msgnum
            IN  IF pr >= ISN_MSG_PRI_DESCRIPTIONLOW
                THEN LET sp == send_packet(o2, DESC_FLAG + n,
                                           MsgTable[n].desc, room)
                     IN  [o |-> [sp.o EXCEPT !.pri[n] =
                                    IF staged THEN ISN_MSG_PRI_HIGHEST
                                    ELSE ISN_MSG_PRI_LOW],
                          ret |-> 1, out |-> sp.out, calls |-> << >>,
                          picked |-> n]
                ELSE IF \/ ~MsgTable[n].handler
                        \/ pr = ISN_MSG_PRI_QUERY_ARGS /\ ~staged
                THEN LET sp == send_packet(o2, n, << >>, room)
                         np == IF MsgTable[n].handler
                               THEN ISN_MSG_PRI_QUERY_WAIT
                               ELSE ISN_MSG_PRI_CLEAR
                     IN  [o |-> [sp.o EXCEPT
                                    !.pri[n] = np,
                                    !.resend_timer =
                                        IF np = ISN_MSG_PRI_QUERY_WAIT
                                        THEN 0 ELSE @],
                          ret |-> 1, out |-> sp.out, calls |-> << >>,
                          picked |-> n]
                ELSE
                LET o3 == [o2 EXCEPT !.handler_priority = pr,
                                     !.pri[n] = ISN_MSG_PRI_CLEAR]
                    call == << [slot |-> n, input |-> staged,
                                data |-> IF staged
                                         THEN o3.isn_msg_received_data
                                         ELSE << >>] >>
                    o4 == IF staged
                          THEN [o3 EXCEPT
                                   !.isn_msg_received_msgnum = NO_MSGNUM,
                                   !.isn_msg_received_data = << >>]
                          ELSE o3
                IN  IF ~hret
                    THEN [o |-> o4, ret |-> 1, out |-> << >>,
                          calls |-> call, picked |-> n]
                    ELSE IF ReplyWanted(pr)
                    THEN LET sp == send_packet(o4, n, HandlerData(n), room)
                         IN  [o |-> sp.o, ret |-> 1, out |-> sp.out,
                              calls |-> call, picked |-> n]
                    ELSE [o |-> o4, ret |-> 1, out |-> << >>,
                          calls |-> call, picked |-> n]

\* emit(obj), no reactor queue set
emit(o) == [o EXCEPT !.pending = 1]

\* isn_msg_post(obj, message_id, priority), dup == NULL
isn_msg_post(o, id, pr) ==
    IF id >= MsgTableSize THEN o
    ELSE IF pr = ISN_MSG_PRI_CLEAR THEN [o EXCEPT !.pri[id] = pr]
    ELSE IF MsgTable[id].size # 0 \/ pr >= ISN_MSG_PRI_DESCRIPTIONLOW
    THEN emit([o EXCEPT !.pri[id] = IF @ < pr THEN pr ELSE @])
    ELSE o

\* isn_msg_send(obj, message_id, priority)
isn_msg_send(o, id, pr) ==
    IF o.handler_msgnum # id THEN isn_msg_post(o, id, pr) ELSE o

\* isn_msg_resend_queries: the priorities after the loop and the count
RECURSIVE ResendLoop(_, _, _)
ResendLoop(o, n, count) ==
    IF n >= MsgTableSize THEN [o |-> o, count |-> count]
    ELSE LET wait == o.pri[n] = ISN_MSG_PRI_QUERY_WAIT
             o1 == IF wait
                   THEN [o EXCEPT !.pri[n] = ISN_MSG_PRI_QUERY_ARGS,
                                  !.tx_retries = @ + 1]
                   ELSE o
             upd == o1.pri[n] = ISN_MGG_PRI_UPDATE_ARGS
             o2 == IF upd THEN [o1 EXCEPT !.tx_retries = @ + 1] ELSE o1
         IN  ResendLoop(o2, n + 1,
                        count + (IF wait THEN 1 ELSE 0)
                              + (IF upd THEN 1 ELSE 0))

\* whether the timer lets the retries start: always
ResendDueAlways(timer, timeout) == TRUE

\* whether the timer lets the retries start
ResendDue(timer, timeout) == timer > timeout

\* isn_msg_resend_queries(obj, timeout)
isn_msg_resend_queries(o0, timeout) ==
    LET o1 == [o0 EXCEPT !.resend_timer = @ + 1]
    IN  IF ResendDue(o1.resend_timer, timeout)
        THEN LET o2 == IF o1.lock # 0
                       THEN [o1 EXCEPT !.pri[o1.lock] = ISN_MGG_PRI_UPDATE_ARGS,
                                       !.lock = 0]
                       ELSE o1
                 r  == ResendLoop(o2, 0, 0)
             IN  IF r.count # 0
                 THEN [o |-> emit([r.o EXCEPT !.resend_timer = 0]),
                       ret |-> r.count]
                 ELSE [o |-> r.o, ret |-> 0]
        ELSE [o |-> o1, ret |-> 0]

\* an index outside the table taken as the first slot
RecvSlotFirst(msgnum, data_size) ==
    IF msgnum >= MsgTableSize
    THEN [msgnum |-> 0, data_size |-> 0]
    ELSE [msgnum |-> msgnum, data_size |-> data_size]

\* the slot a received index stands for, and the size of its data
RecvSlot(msgnum, data_size) ==
    IF msgnum >= MsgTableSize
    THEN [msgnum |-> MsgTableSize - 1, data_size |-> 0]
    ELSE [msgnum |-> msgnum, data_size |-> data_size]

\* the slots the fast loading marks: none
FastLoadNone == {}

\* the slots the fast loading marks: all but the first and the last
FastLoadSlots == ISN_MSG_NUM_ID + 1 .. MsgTableSize - 2

\* the loop of the fast loading, from slot i on
RECURSIVE FastLoad(_, _, _)
FastLoad(o, i, desc) ==
    IF i \notin FastLoadSlots THEN o
    ELSE FastLoad(isn_msg_post(o, i, IF desc THEN ISN_MSG_PRI_DESCRIPTIONLOW
                                      ELSE ISN_MSG_PRI_LOW),
                  i + 1, desc)

\* isn_message_recv(drv, src, size, caller): the state and the return value
isn_message_recv(o0, src) ==
    IF Len(src) < 2 \/ src[1] # ISN_PROTO_MSG
    THEN [o |-> [o0 EXCEPT !.rx_dropped = @ + 1], ret |-> Len(src)]
    ELSE
    LET rs == RecvSlot(src[2] % 128, Len(src) - 2)
        n  == rs.msgnum
        desc == src[2] >= DESC_FLAG
        o  == IF o0.fast_loading > 0 /\ src[2] % 128 = ISN_MSG_NUM_LAST
              THEN FastLoad(o0, ISN_MSG_NUM_ID + 1, desc)
              ELSE o0
    IN  IF rs.data_size > 0 /\ o.isn_msg_received_msgnum # NO_MSGNUM
        THEN [o |-> o, ret |-> 0]
        ELSE IF rs.data_size > 0 /\ rs.data_size # MsgTable[n].size
        THEN [o |-> [o EXCEPT !.rx_dropped = @ + 1], ret |-> Len(src)]
        ELSE
        LET o1 == IF o.pri[n] # ISN_MGG_PRI_UPDATE_ARGS
                  THEN isn_msg_post(
                         IF rs.data_size > 0
                         THEN [o EXCEPT
                                 !.isn_msg_received_data =
                                     SubSeq(src, 3, 2 + rs.data_size),
                                 !.isn_msg_received_msgnum = n]
                         ELSE o,
                         n,
                         IF desc THEN ISN_MSG_PRI_DESCRIPTION
                         ELSE ISN_MSG_PRI_HIGHEST)
                  ELSE IF n = o.lock THEN emit([o EXCEPT !.lock = 0])
                  ELSE o
        IN  [o |-> [o1 EXCEPT !.msgnum = n, !.rx_packets = @ + 1],
             ret |-> Len(src)]

\* isn_msg_sched(obj)
isn_msg_sched(o, room, hret) ==
    IF o.pending # 0 /\ MsgGetSendBuf(1, room) > 0
    THEN LET r == isn_msg_sendnext(o, room, hret)
         IN  [r EXCEPT !.o = [r.o EXCEPT !.pending = r.ret]]
    ELSE [o |-> o, ret |-> o.pending, out |-> << >>, calls |-> << >>,
          picked |-> -1]

\* the application calls isn_msg_send
MsgSend ==
    /\ m_ops < MaxMsgOps
    /\ \E id \in PostIds, pr \in PostPriorities :
        /\ m' = isn_msg_send(m, id, pr)
        /\ m_log' = [op |-> "send", pre |-> m, arg |-> << id, pr >>,
                     room |-> 0, picked |-> -1, out |-> << >>,
                     calls |-> << >>, ret |-> 0]
    /\ m_ops' = m_ops + 1

\* the parent delivers a packet
MsgRecv ==
    /\ m_ops < MaxMsgOps
    /\ \E src \in RecvPackets :
        LET r == isn_message_recv(m, src)
        IN  /\ m' = r.o
            /\ m_log' = [op |-> "recv", pre |-> m, arg |-> src,
                         room |-> 0, picked |-> -1, out |-> << >>,
                         calls |-> << >>, ret |-> r.ret]
    /\ m_ops' = m_ops + 1

\* the main loop calls isn_msg_sched
MsgSched ==
    /\ m_ops < MaxMsgOps
    /\ \E room \in MsgRooms, hret \in HandlerReturns :
        LET r == isn_msg_sched(m, room, hret)
        IN  /\ m' = r.o
            /\ m_log' = [op |-> "sched", pre |-> m, arg |-> << >>,
                         room |-> room, picked |-> r.picked, out |-> r.out,
                         calls |-> r.calls, ret |-> r.ret]
    /\ m_ops' = m_ops + 1

\* the retry timer calls isn_msg_resend_queries
MsgResend ==
    /\ m_ops < MaxMsgOps
    /\ \E timeout \in ResendTimeouts :
        LET r == isn_msg_resend_queries(m, timeout)
        IN  /\ m' = r.o
            /\ m_log' = [op |-> "resend", pre |-> m, arg |-> << timeout >>,
                         room |-> 0, picked |-> -1, out |-> << >>,
                         calls |-> << >>, ret |-> r.ret]
    /\ m_ops' = m_ops + 1

(***************************************************************************)
(* Message layer: a staged packet, the application clearing slots, and     *)
(* isn_msg_sched called again and again with room in the parent            *)
(***************************************************************************)
MaxStagedOps == 2    \* packets received and slots cleared per behaviour

\* isn_msg_discardpending(obj): the state and the count returned
isn_msg_discardpending(o) ==
    [o |-> [o EXCEPT !.pri = [n \in MsgSlots |->
                                 IF o.pri[n] > ISN_MSG_PRI_CLEAR
                                 THEN ISN_MSG_PRI_CLEAR ELSE o.pri[n]],
                     !.lock = 0],
     ret |-> Cardinality({n \in MsgSlots : o.pri[n] > ISN_MSG_PRI_CLEAR})]

\* the parent delivers a packet
StagedRecv ==
    /\ m_ops < MaxStagedOps
    /\ MsgRecv

\* the application calls isn_msg_post(obj, id, ISN_MSG_PRI_CLEAR)
StagedClear ==
    /\ m_ops < MaxStagedOps
    /\ \E id \in MsgSlots :
        /\ m' = isn_msg_post(m, id, ISN_MSG_PRI_CLEAR)
        /\ m_log' = [op |-> "post", pre |-> m,
                     arg |-> << id, ISN_MSG_PRI_CLEAR >>,
                     room |-> 0, picked |-> -1, out |-> << >>,
                     calls |-> << >>, ret |-> 0]
    /\ m_ops' = m_ops + 1

\* the application calls isn_msg_discardpending
StagedDiscard ==
    /\ m_ops < MaxStagedOps
    /\ LET r == isn_msg_discardpending(m)
       IN  /\ m' = r.o
           /\ m_log' = [op |-> "discard", pre |-> m, arg |-> << >>,
                        room |-> 0, picked |-> -1, out |-> << >>,
                        calls |-> << >>, ret |-> r.ret]
    /\ m_ops' = m_ops + 1

\* room for every packet of the table
RoomForAll == 66

\* the main loop calls isn_msg_sched while the parent has room
StagedSched ==
    /\ \E hret \in HandlerReturns :
        LET r == isn_msg_sched(m, RoomForAll, hret)
        IN  /\ m' = r.o
            /\ m_log' = [op |-> "sched", pre |-> m, arg |-> << >>,
                         room |-> RoomForAll, picked |-> r.picked,
                         out |-> r.out, calls |-> r.calls, ret |-> r.ret]
    /\ UNCHANGED m_ops

(***************************************************************************)
(* Reactor channels (isn_reactor.c): the ring between a producer core and  *)
(* the consumer core that calls isn_reactor_runall.  Each access to the    *)
(* shared indexes and to a ring entry is a step of its own.                *)
(***************************************************************************)
MaxPush == 4

\* size masks of the rings
SizeMasks == {1, 3}

VARIABLES
    chan      \* isn_tasklet_queue_t, the two program counters, the history

\* isn_reactor_initchannel(queue, fifobuf, size_mask)
isn_reactor_initchannel(size_mask) ==
    chan = [fifo |-> [i \in 0 .. size_mask |-> 0],
            size_mask |-> size_mask,
            rdi |-> 0, wri |-> 0,
            p_pc |-> "idle", p_next |-> 0, p_item |-> 0, p_ret |-> 0,
            p_pre |-> << >>,
            c_pc |-> "idle",
            pushes |-> 0, pushed |-> << >>, handed |-> << >>]

\* a ring that never counts as full
RingNeverFull(rdi, next) == FALSE

\* the test of isn_reactor_channel_at, negated: no room in the ring
RingFull(rdi, next) == rdi = next

\* isn_reactor_channel_at: next is computed and compared with rdi
ChannelAtTest ==
    /\ chan.p_pc = "idle"
    /\ chan.pushes < MaxPush
    /\ LET next == BitAnd(chan.wri + 1, chan.size_mask)
       IN  IF RingFull(chan.rdi, next)
           THEN chan' = [chan EXCEPT !.pushes = @ + 1, !.p_ret = -1,
                                     !.p_pre = << chan.fifo, chan.rdi,
                                                  chan.wri >>]
           ELSE chan' = [chan EXCEPT !.pushes = @ + 1, !.p_pc = "store",
                                     !.p_next = next,
                                     !.p_item = chan.pushes + 1]

\* isn_reactor_channel_at: the entry is written
ChannelAtStore ==
    /\ chan.p_pc = "store"
    /\ chan' = [chan EXCEPT !.fifo[chan.wri] = chan.p_item,
                            !.p_pc = "publish"]

\* isn_reactor_channel_at: queue->wri = next; return 0
ChannelAtPublish ==
    /\ chan.p_pc = "publish"
    /\ chan' = [chan EXCEPT !.wri = chan.p_next, !.p_pc = "idle",
                            !.p_ret = 0,
                            !.pushed = Append(@, chan.p_item)]

\* isn_reactor_runall: while (queue->rdi != queue->wri)
RunallTest ==
    /\ chan.c_pc = "idle"
    /\ chan.rdi # chan.wri
    /\ chan' = [chan EXCEPT !.c_pc = "call"]

\* isn_reactor_runall: the entry is read and handed to the local queue
RunallCall ==
    /\ chan.c_pc = "call"
    /\ chan' = [chan EXCEPT !.handed = Append(@, chan.fifo[chan.rdi]),
                            !.c_pc = "advance"]

\* isn_reactor_runall: queue->rdi = (queue->rdi+1) & queue->size_mask
RunallAdvance ==
    /\ chan.c_pc = "advance"
    /\ chan' = [chan EXCEPT !.rdi = BitAnd(chan.rdi + 1, chan.size_mask),
                            !.c_pc = "idle"]

(***************************************************************************)
(* isn_reactor_runall draining a channel into the local queue              *)
(***************************************************************************)
MaxRunallPush == 2    \* pushes into the ring per behaviour
MaxRunallTicks == 1   \* clock ticks per behaviour

\* isn_reactor_runall: isn_reactor_callx_at(e->tasklet, e->caller_queue,
\* e->caller, e->arg, e->time) for the entry read; its return value is not
\* looked at.  The entry counts as handed over when it was placed.
RunallCallx ==
    /\ chan.c_pc = "call"
    /\ pc = "idle"
    /\ \E t \in Tasklets :
          CallAt(t, 0, chan.fifo[chan.rdi], clock, "channel", 0)
    /\ chan' = [chan EXCEPT
                  !.handed = IF ret' >= 0
                             THEN Append(@, chan.fifo[chan.rdi]) ELSE @,
                  !.c_pc = "advance"]

(***************************************************************************)
(* Receiver duplicator (isn_dup.c)                                         *)
(***************************************************************************)
MaxStream == 3   \* bytes of the stream the parent feeds through the duplicator

\* the streams fed: bytes that all differ, so that a lost or a repeated
\* byte shows
Streams == { [i \in 1 .. n |-> i] : n \in 1 .. MaxStream }

VARIABLES
    dup       \* isn_dup_t, what the parent still holds, what the children got

\* isn_dup_init(obj, child1, child2); stream is what the parent will feed
isn_dup_init(stream) ==
    dup = [dup_errors |-> 0, stream |-> stream, fed |-> stream,
           rx1 |-> << >>, rx2 |-> << >>, ret |-> 0, calls |-> 0]

\* a duplicator that never sees a difference
DupDifferNever(recv1, recv2) == FALSE

\* if (recv1 != recv2)
DupDiffer(recv1, recv2) == recv1 # recv2

\* return (recv1 > recv2) ? recv1 : recv2
DupReturn(recv1, recv2) == IF recv1 > recv2 THEN recv1 ELSE recv2

\* the parent calls isn_dup_recv with the first size bytes it holds; the
\* children take recv1 and recv2 of them; the parent keeps what the
\* duplicator did not report as consumed
isn_dup_recv ==
    /\ dup.stream # << >>
    /\ \E size \in 1 .. Len(dup.stream) :
       \E recv1 \in 0 .. size, recv2 \in 0 .. size :
        /\ recv1 + recv2 > 0
        /\ dup' = [dup EXCEPT
              !.rx1 = @ \o SubSeq(dup.stream, 1, recv1),
              !.rx2 = @ \o SubSeq(dup.stream, 1, recv2),
              !.dup_errors = IF DupDiffer(recv1, recv2) THEN @ + 1 ELSE @,
              !.ret = DupReturn(recv1, recv2),
              !.stream = SubSeq(dup.stream, DupReturn(recv1, recv2) + 1,
                                Len(dup.stream)),
              !.calls = @ + 1]

(***************************************************************************)
(* UDB UART transmit ring with its contents (isn_uart_udb.c and            *)
(* tests/isn_uart_udb_alloc_test.c)                                        *)
(***************************************************************************)
MaxRingSends == 2   \* granted buffers of any size sent per behaviour
MaxRingSmall == 1   \* one-byte buffers sent after them

\* request sizes: the smallest, the documented minimum of 128 and its
\* neighbour, and the largest the test asks for
RingSizes == {1, 127, 128, 199}

VARIABLES
    txd       \* tx_buf, the counters of the test, the caller's position

\* static initialisers of the test: tx_buf zeroed, cnt = 0, txed = 0
TxdInit ==
    txd = [mem |-> [i \in 0 .. (TX_FIFO_SIZE - 1) |-> 0],
           fill_cnt |-> 0, tx_cnt |-> 0, sent |-> 0, txed |-> 0,
           bad |-> FALSE, oob |-> FALSE,
           s_pc |-> "idle", s_size |-> 0, sends |-> 0]

\* fill(dest, size): the test's counter sequence written into the buffer
Fill(mem, dest, size, cnt) ==
    [i \in 0 .. (TX_FIFO_SIZE - 1) |->
        IF i >= dest /\ i < dest + size THEN (cnt + i - dest) % 256
        ELSE mem[i]]

\* getsendbuf with a destination, then fill of the granted buffer
RingGetSendBuf ==
    /\ txd.s_pc = "idle"
    /\ txd.sends < MaxRingSends + MaxRingSmall
    /\ \E size \in (IF txd.sends < MaxRingSends THEN RingSizes ELSE {1}) :
        LET r == isn_uart_getsendbuf(buf, TRUE, size)
        IN  /\ r.b.tx_retries <= MaxTxRetries
            /\ buf' = r.b
            /\ buf_dest' = r.dest
            /\ buf_ret' = r.ret
            /\ g_held' = IF r.dest # NULL THEN g_held + 1 ELSE g_held
            /\ txd' = IF r.ret > 0
                      THEN [txd EXCEPT
                              !.mem = Fill(@, r.dest, r.ret, txd.fill_cnt),
                              !.fill_cnt = (@ + r.ret) % 256,
                              !.oob = @ \/ r.dest + r.ret > TX_FIFO_SIZE,
                              !.s_pc = "filled", !.s_size = r.ret]
                      ELSE txd

\* isn_uart_send: the store of txb_wrw
RingSendWrw ==
    /\ txd.s_pc = "filled"
    /\ buf' = [buf EXCEPT !.txb_wrw = buf.txb_alloc_wrw]
    /\ txd' = [txd EXCEPT !.s_pc = "wrw"]
    /\ UNCHANGED << buf_dest, buf_ret, g_held >>

\* isn_uart_send: the store of txb_wri and the rest of the function
RingSendWri ==
    /\ txd.s_pc = "wrw"
    /\ buf' = isn_uart_send(buf, HeldPtr(buf), txd.s_size)
    /\ buf_ret' = txd.s_size
    /\ g_held' = 0
    /\ txd' = [txd EXCEPT !.s_pc = "idle", !.sent = @ + txd.s_size,
                          !.sends = @ + 1]
    /\ UNCHANGED buf_dest

\* an interrupt that reads the ring without the wrap
IsrIndexNoWrap(b) == b.txb_rdi

\* tx_isr__: if (txb_rdi == txb_wrw) txb_rdi = 0; the index it reads
IsrIndex(b) == IF b.txb_rdi = b.txb_wrw THEN 0 ELSE b.txb_rdi

\* tx_isr__ with the byte it hands to the transmitter, compared with the
\* next value of the counter sequence as tx() of the test does
RingIsr ==
    /\ tx_isr__
    /\ txd' = [txd EXCEPT
                 !.bad = @ \/ txd.mem[IsrIndex(buf)] # txd.tx_cnt,
                 !.tx_cnt = (@ + 1) % 256,
                 !.txed = @ + 1]

(***************************************************************************)
(* Clock differences (isn_clock.h)                                         *)
(***************************************************************************)
\* counter values b around the wrap of the counter, of its sign bit and of
\* its 16-bit halves
ClockValues ==
    {0, 1, 2, 1000, 65535, 65536, 2147483647, -2147483647, -65536, -2, -1}

\* true distances from b to a, below 2^31 in either direction
ClockDistances ==
    {-2147483647, -65537, -65536, -2, -1, 0, 1, 2, 65535, 65536, 65537,
     2147483647}

VARIABLES
    cd        \* two timestamps, their true distance and the difference computed

ClockPairInit(b, d) == cd = [b |-> b, d |-> d, a |-> b, r |-> 0, pc |-> "b"]

\* the counter runs the distance d from b (backwards for d < 0), wrapping
Advance ==
    /\ cd.pc = "b"
    /\ cd' = [cd EXCEPT !.a = Add32(cd.b, cd.d), !.pc = "a"]

\* r = isn_clock_diff(a, b)
ClockDiff ==
    /\ cd.pc = "a"
    /\ cd' = [cd EXCEPT !.r = isn_clock_diff(cd.a, cd.b), !.pc = "done"]

(***************************************************************************)
(* isn_msg_sched taken step by step, with isn_msg_post called from an      *)
(* interrupt between the steps (isn_msg.c)                                 *)
(***************************************************************************)
MaxSchedCalls == 3   \* isn_msg_sched calls per behaviour
MaxIrqPosts == 1     \* posts from the interrupt per behaviour

VARIABLES
    sch       \* position inside isn_msg_sched, and the interrupt's post

SchedInit ==
    sch = [pc |-> "idle", i |-> 0, room |-> 0, hret |-> FALSE, ret |-> 0,
           irq |-> -1, irqs |-> 0, calls |-> 0]

\* isn_msg_sched up to the call of isn_msg_sendnext, and the first
\* statements of isn_msg_sendnext
SchedEnter ==
    /\ sch.pc = "idle"
    /\ sch.calls < MaxSchedCalls
    /\ \E room \in MsgRooms, hret \in HandlerReturns :
        IF m.pending # 0 /\ MsgGetSendBuf(1, room) > 0
        THEN /\ m' = [m EXCEPT !.active = 0]
             /\ sch' = [sch EXCEPT !.pc = "scan", !.i = 0, !.room = room,
                                   !.hret = hret]
        ELSE /\ m' = m
             /\ sch' = [sch EXCEPT !.ret = m.pending, !.calls = @ + 1]

\* one iteration of the loop of isn_msg_sendnext; when the slot is picked,
\* the rest of isn_msg_sendnext up to its return
SchedScanStep ==
    /\ sch.pc = "scan"
    /\ sch.i < MsgTableSize
    /\ LET c == IF m.msgnum >= MsgTableSize THEN 0 ELSE m.msgnum
           seen == m.pri[c] > 0
           irq == IF seen /\ sch.irq = c THEN -1 ELSE sch.irq
       IN  IF seen /\ MsgPickable(m, c)
           THEN LET r == isn_msg_sendnext([m EXCEPT !.msgnum = c],
                                          sch.room, sch.hret)
                IN  /\ m' = [r.o EXCEPT !.active = m.active + 1]
                    /\ sch' = [sch EXCEPT !.pc = "store", !.ret = r.ret,
                                          !.irq = irq]
           ELSE /\ m' = [m EXCEPT !.msgnum = c + 1,
                                  !.active = IF seen THEN @ + 1 ELSE @]
                /\ sch' = [sch EXCEPT !.i = @ + 1, !.irq = irq]

\* the loop ends without a slot picked: return 0
SchedScanEnd ==
    /\ sch.pc = "scan"
    /\ sch.i >= MsgTableSize
    /\ sch' = [sch EXCEPT !.pc = "store", !.ret = 0]
    /\ m' = m

\* obj->pending = <the value isn_msg_sendnext returned>; return obj->pending
SchedStore ==
    /\ sch.pc = "store"
    /\ m' = [m EXCEPT !.pending = sch.ret]
    /\ sch' = [sch EXCEPT !.pc = "idle", !.calls = @ + 1]

\* an interrupt calls isn_msg_post with a non-zero priority for a slot the
\* function does not ignore, while isn_msg_sched is running
IrqPost ==
    /\ sch.pc # "idle"
    /\ sch.irqs < MaxIrqPosts
    /\ \E id \in MsgSlots, pr \in PostPriorities \ {ISN_MSG_PRI_CLEAR} :
        /\ MsgTable[id].size # 0 \/ pr >= ISN_MSG_PRI_DESCRIPTIONLOW
        /\ m' = isn_msg_post(m, id, pr)
        /\ sch' = [sch EXCEPT !.irq = id, !.irqs = @ + 1]

\* the variables added to every layer's surroundings
ext_vars == << dup, txd, cd, sch, lp >>

\* their values where a specification does not use them
ExtInit ==
    isn_dup_init(<< >>) /\ TxdInit /\ ClockPairInit(0, 0) /\ SchedInit /\ LoopInit

(***************************************************************************)
(* Reactor: specifications                                                 *)
(***************************************************************************)
\* the variables of the layers above and below the reactor
layer_vars == << frame_vars, buf_vars, long_vars, msg_vars, chan,
                  ext_vars >>

\* the variables a layer's operations leave alone, the clock apart
beside_frame == << reactor_vars, buf_vars, long_vars, msg_vars, chan,
                  ext_vars >>
beside_buf   == << reactor_vars, frame_vars, long_vars, msg_vars, chan,
                  ext_vars >>
beside_long  == << reactor_vars, frame_vars, buf_vars, msg_vars, chan,
                  ext_vars >>
beside_msg   == << reactor_vars, frame_vars, buf_vars, long_vars, chan,
                  ext_vars >>

vars == << clock, ticks, reactor_vars, frame_vars, buf_vars, long_vars,
          msg_vars, chan, ext_vars >>

InitReactor ==
    /\ clock \in InitClocks
    /\ ticks = 0
    /\ ExtInit
    /\ isn_reactor_init
    /\ isn_frame_init(0)
    /\ BufInit("uart")
    /\ isn_frame_long_init
    /\ isn_reactor_initchannel(1)
    /\ isn_msg_init([n \in MsgSlots |-> ISN_MSG_PRI_CLEAR], 0)

NextReactor ==
    \/ Queue /\ UNCHANGED layer_vars
    \/ QueueAt /\ UNCHANGED layer_vars
    \/ isn_reactor_drop /\ UNCHANGED layer_vars
    \/ isn_reactor_change_timed_self /\ UNCHANGED layer_vars
    \/ ReactorTick /\ UNCHANGED layer_vars
    \/ StepCall /\ UNCHANGED layer_vars
    \/ StepGate /\ UNCHANGED layer_vars
    \/ StepEnd /\ UNCHANGED layer_vars
    \/ StepNotDue /\ UNCHANGED layer_vars
    \/ StepInvoke /\ UNCHANGED layer_vars
    \/ TaskletReturnKeep /\ UNCHANGED layer_vars
    \/ TaskletReturnFree /\ UNCHANGED layer_vars

SpecReactor == InitReactor /\ [][NextReactor]_vars

NextMutex ==
    \/ MutexQueue /\ UNCHANGED layer_vars
    \/ isn_reactor_getmutex /\ UNCHANGED layer_vars
    \/ isn_reactor_mutex_lock /\ UNCHANGED layer_vars
    \/ isn_reactor_mutex_unlock /\ UNCHANGED layer_vars
    \/ ReactorTick /\ UNCHANGED layer_vars
    \/ StepCall /\ UNCHANGED layer_vars
    \/ StepGate /\ UNCHANGED layer_vars
    \/ StepEnd /\ UNCHANGED layer_vars
    \/ StepSkipLocked /\ UNCHANGED layer_vars
    \/ StepInvoke /\ UNCHANGED layer_vars
    \/ TaskletReturnKeep /\ UNCHANGED layer_vars
    \/ TaskletReturnFree /\ UNCHANGED layer_vars

SpecMutex == InitReactor /\ [][NextMutex]_vars

\* every queued tasklet is a periodic one
NextRepeat ==
    \/ Queue /\ UNCHANGED layer_vars
    \/ ReactorTick /\ UNCHANGED layer_vars
    \/ StepCall /\ UNCHANGED layer_vars
    \/ StepGate /\ UNCHANGED layer_vars
    \/ StepEnd /\ UNCHANGED layer_vars
    \/ StepNotDue /\ UNCHANGED layer_vars
    \/ StepInvoke /\ UNCHANGED layer_vars
    \/ RepeatTasklet /\ UNCHANGED layer_vars

SpecRepeat == InitReactor /\ [][NextRepeat]_vars

(***************************************************************************)
(* Frame layer: specification                                              *)
(***************************************************************************)
InitFrame ==
    /\ clock \in InitClocks
    /\ ticks = 0
    /\ ExtInit
    /\ isn_reactor_init
    /\ \E mode \in Modes : isn_frame_init(mode)
    /\ BufInit("uart")
    /\ isn_frame_long_init
    /\ isn_reactor_initchannel(1)
    /\ isn_msg_init([n \in MsgSlots |-> ISN_MSG_PRI_CLEAR], 0)

FrameTick == Tick /\ UNCHANGED frame_vars

NextFrame ==
    \/ isn_frame_send /\ UNCHANGED << clock, ticks, beside_frame >>
    \/ CorruptFrame /\ UNCHANGED << clock, ticks, beside_frame >>
    \/ Deliver /\ UNCHANGED << clock, ticks, beside_frame >>
    \/ FrameTick /\ UNCHANGED beside_frame

SpecFrame == InitFrame /\ [][NextFrame]_vars

\* the frame layer as a sender of payloads of every size
NextSend ==
    \/ FrameSendSized /\ UNCHANGED << clock, ticks, beside_frame >>

SpecSend == InitFrame /\ [][NextSend]_vars

\* the frame layer as the receiver of a peer's one-byte frame
NextPing ==
    \/ PeerFeed /\ UNCHANGED << clock, ticks, beside_frame >>
    \/ Deliver /\ UNCHANGED << clock, ticks, beside_frame >>
    \/ FrameTick /\ UNCHANGED beside_frame

SpecPing == InitFrame /\ [][NextPing]_vars

(***************************************************************************)
(* Send buffer: specification                                              *)
(***************************************************************************)
InitBuf ==
    /\ clock \in InitClocks
    /\ ticks = 0
    /\ ExtInit
    /\ isn_reactor_init
    /\ isn_frame_init(0)
    /\ \E layer \in Layers : BufInit(layer)
    /\ isn_frame_long_init
    /\ isn_reactor_initchannel(1)
    /\ isn_msg_init([n \in MsgSlots |-> ISN_MSG_PRI_CLEAR], 0)

NextBuf ==
    \/ GetSendBuf /\ UNCHANGED << clock, ticks, beside_buf >>
    \/ Free /\ UNCHANGED << clock, ticks, beside_buf >>
    \/ Send /\ UNCHANGED << clock, ticks, beside_buf >>
    \/ tx_isr__ /\ UNCHANGED << clock, ticks, beside_buf >>

SpecBuf == InitBuf /\ [][NextBuf]_vars

(***************************************************************************)
(* Send buffer reached through a frame and a transport layer               *)
(***************************************************************************)
InitChain ==
    /\ clock \in InitClocks
    /\ ticks = 0
    /\ ExtInit
    /\ isn_reactor_init
    /\ \E mode \in Modes : isn_frame_init(mode)
    /\ \E layer \in Layers : BufInit(layer)
    /\ isn_frame_long_init
    /\ isn_reactor_initchannel(1)
    /\ isn_msg_init([n \in MsgSlots |-> ISN_MSG_PRI_CLEAR], 0)

NextChain ==
    \/ GetSendBuf /\ UNCHANGED << clock, ticks, beside_buf >>
    \/ FrameGetSendBuf /\ UNCHANGED << clock, ticks, beside_buf >>
    \/ TransGetSendBuf /\ UNCHANGED << clock, ticks, beside_buf >>
    \/ Free /\ UNCHANGED << clock, ticks, beside_buf >>

SpecChain == InitChain /\ [][NextChain]_vars

(***************************************************************************)
(* Long frame layer: specification                                         *)
(***************************************************************************)
InitLong ==
    /\ clock \in InitClocks
    /\ ticks = 0
    /\ ExtInit
    /\ isn_reactor_init
    /\ isn_frame_init(0)
    /\ BufInit("uart")
    /\ isn_frame_long_init
    /\ isn_reactor_initchannel(1)
    /\ isn_msg_init([n \in MsgSlots |-> ISN_MSG_PRI_CLEAR], 0)

LongTick == Tick /\ UNCHANGED long_vars

NextLong ==
    \/ isn_frame_long_getsendbuf /\ UNCHANGED << clock, ticks, beside_long >>
    \/ isn_frame_long_free /\ UNCHANGED << clock, ticks, beside_long >>
    \/ isn_frame_long_send /\ UNCHANGED << clock, ticks, beside_long >>
    \/ LongDeliver /\ UNCHANGED << clock, ticks, beside_long >>
    \/ LongTick /\ UNCHANGED beside_long

SpecLong == InitLong /\ [][NextLong]_vars

(***************************************************************************)
(* Message layer: specification                                            *)
(***************************************************************************)
InitMsg ==
    /\ clock \in InitClocks
    /\ ticks = 0
    /\ ExtInit
    /\ isn_reactor_init
    /\ isn_frame_init(0)
    /\ BufInit("uart")
    /\ isn_frame_long_init
    /\ isn_reactor_initchannel(1)
    /\ \E pri \in [MsgSlots -> TablePriorities] : isn_msg_init(pri, 0)

NextMsg ==
    \/ MsgSend /\ UNCHANGED << clock, ticks, beside_msg, m_hist >>
    \/ MsgRecv /\ UNCHANGED << clock, ticks, beside_msg, m_hist >>
    \/ MsgSched /\ UNCHANGED << clock, ticks, beside_msg, m_hist >>
    \/ MsgResend /\ UNCHANGED << clock, ticks, beside_msg, m_hist >>

SpecMsg == InitMsg /\ [][NextMsg]_vars

(***************************************************************************)
(* Message layer built with CONFIG_ISN_MSG_FAST_LOADING 1: the packets     *)
(* received and the sched calls, with the calls recorded                   *)
(***************************************************************************)
InitFast ==
    /\ clock \in InitClocks
    /\ ticks = 0
    /\ ExtInit
    /\ isn_reactor_init
    /\ isn_frame_init(0)
    /\ BufInit("uart")
    /\ isn_frame_long_init
    /\ isn_reactor_initchannel(1)
    /\ isn_msg_init([n \in MsgSlots |-> ISN_MSG_PRI_CLEAR], 1)

NextFast ==
    \/ MsgRecv /\ m_hist' = Append(m_hist, m_log')
               /\ UNCHANGED << clock, ticks, beside_msg >>
    \/ MsgSched /\ m_hist' = Append(m_hist, m_log')
                /\ UNCHANGED << clock, ticks, beside_msg >>

SpecFast == InitFast /\ [][NextFast]_vars

(***************************************************************************)
(* Reactor channels: specification                                         *)
(***************************************************************************)
InitChannel ==
    /\ clock \in InitClocks
    /\ ticks = 0
    /\ ExtInit
    /\ isn_reactor_init
    /\ isn_frame_init(0)
    /\ BufInit("uart")
    /\ isn_frame_long_init
    /\ isn_msg_init([n \in MsgSlots |-> ISN_MSG_PRI_CLEAR], 0)
    /\ \E size_mask \in SizeMasks : isn_reactor_initchannel(size_mask)

beside_chan == << reactor_vars, frame_vars, buf_vars, long_vars, msg_vars,
                  ext_vars >>

NextChannel ==
    \/ ChannelAtTest /\ UNCHANGED << clock, ticks, beside_chan >>
    \/ ChannelAtStore /\ UNCHANGED << clock, ticks, beside_chan >>
    \/ ChannelAtPublish /\ UNCHANGED << clock, ticks, beside_chan >>
    \/ RunallTest /\ UNCHANGED << clock, ticks, beside_chan >>
    \/ RunallCall /\ UNCHANGED << clock, ticks, beside_chan >>
    \/ RunallAdvance /\ UNCHANGED << clock, ticks, beside_chan >>

SpecChannel == InitChannel /\ [][NextChannel]_vars

(***************************************************************************)
(* Receiver duplicator: specification                                      *)
(***************************************************************************)
InitDup ==
    /\ clock \in InitClocks
    /\ ticks = 0
    /\ \E stream \in Streams : isn_dup_init(stream)
    /\ TxdInit
    /\ ClockPairInit(0, 0)
    /\ SchedInit
    /\ LoopInit
    /\ isn_reactor_init
    /\ isn_frame_init(0)
    /\ BufInit("uart")
    /\ isn_frame_long_init
    /\ isn_reactor_initchannel(1)
    /\ isn_msg_init([n \in MsgSlots |-> ISN_MSG_PRI_CLEAR], 0)

beside_ext == << reactor_vars, frame_vars, buf_vars, long_vars, msg_vars, chan >>

NextDup ==
    \/ isn_dup_recv /\ UNCHANGED << clock, ticks, beside_ext, txd, cd, sch, lp >>

SpecDup == InitDup /\ [][NextDup]_vars

(***************************************************************************)
(* UDB UART transmit ring: specification                                   *)
(***************************************************************************)
beside_ring == << reactor_vars, frame_vars, long_vars, msg_vars, chan, dup, cd,
                 sch, lp >>

NextRing ==
    \/ RingGetSendBuf /\ UNCHANGED << clock, ticks, beside_ring >>
    \/ RingSendWrw /\ UNCHANGED << clock, ticks, beside_ring >>
    \/ RingSendWri /\ UNCHANGED << clock, ticks, beside_ring >>
    \/ RingIsr /\ UNCHANGED << clock, ticks, beside_ring >>

SpecRing == InitReactor /\ [][NextRing]_vars

(***************************************************************************)
(* Clock differences: specification                                        *)
(***************************************************************************)
\* every layer as constructed, the variables of ext_vars left to the caller
InitLayers ==
    /\ clock \in InitClocks
    /\ ticks = 0
    /\ isn_reactor_init
    /\ isn_frame_init(0)
    /\ BufInit("uart")
    /\ isn_frame_long_init
    /\ isn_reactor_initchannel(1)
    /\ isn_msg_init([n \in MsgSlots |-> ISN_MSG_PRI_CLEAR], 0)

InitClockDiff ==
    /\ InitLayers
    /\ isn_dup_init(<< >>)
    /\ TxdInit
    /\ SchedInit
    /\ LoopInit
    /\ \E b \in ClockValues, d \in ClockDistances : ClockPairInit(b, d)

beside_cd == << reactor_vars, frame_vars, buf_vars, long_vars, msg_vars, chan,
                dup, txd, sch, lp >>

NextClockDiff ==
    \/ Advance /\ UNCHANGED << clock, ticks, beside_cd >>
    \/ ClockDiff /\ UNCHANGED << clock, ticks, beside_cd >>

SpecClockDiff == InitClockDiff /\ [][NextClockDiff]_vars

(***************************************************************************)
(* isn_frame_recv with its loop counter: specification.  A call that has   *)
(* begun keeps running: an iteration that can be taken is taken.           *)
(***************************************************************************)
beside_lp == << reactor_vars, buf_vars, long_vars, msg_vars, chan,
                dup, txd, cd, sch >>

RecvCallStep == RecvCall /\ UNCHANGED << clock, ticks, beside_lp >>
LoopIterStep == LoopIter /\ UNCHANGED << clock, ticks, beside_lp >>
LoopExitStep == LoopExit /\ UNCHANGED << clock, ticks, beside_lp >>
LoopBeyondStep == LoopBeyond /\ UNCHANGED << clock, ticks, beside_lp >>

NextLoop ==
    \/ RecvCallStep
    \/ LoopIterStep
    \/ LoopExitStep
    \/ LoopBeyondStep
    \/ BeyondReturn /\ UNCHANGED << clock, ticks, beside_lp >>

SpecLoop ==
    /\ InitFrame
    /\ [][NextLoop]_vars
    /\ WF_vars(LoopIterStep)
    /\ WF_vars(LoopExitStep)
    /\ WF_vars(LoopBeyondStep)

(***************************************************************************)
(* Frame layer fed with bytes outside any frame: specification             *)
(***************************************************************************)
NextNoise ==
    \/ isn_frame_send /\ UNCHANGED << clock, ticks, beside_frame >>
    \/ PeerNoise /\ UNCHANGED << clock, ticks, beside_frame >>
    \/ DeliverRun /\ UNCHANGED << clock, ticks, beside_frame >>

SpecNoise == InitFrame /\ [][NextNoise]_vars

(***************************************************************************)
(* Channel drained into the local queue: specification                     *)
(***************************************************************************)
beside_runall == << frame_vars, buf_vars, long_vars, msg_vars, ext_vars >>

NextRunall ==
    \/ chan.pushes < MaxRunallPush /\ ChannelAtTest
          /\ UNCHANGED << clock, ticks, beside_chan >>
    \/ ChannelAtStore /\ UNCHANGED << clock, ticks, beside_chan >>
    \/ ChannelAtPublish /\ UNCHANGED << clock, ticks, beside_chan >>
    \/ RunallTest /\ UNCHANGED << clock, ticks, beside_chan >>
    \/ RunallCallx /\ UNCHANGED beside_runall
    \/ RunallAdvance /\ UNCHANGED << clock, ticks, beside_chan >>
    \/ Queue /\ UNCHANGED layer_vars
    \/ ticks < MaxRunallTicks /\ ReactorTick /\ UNCHANGED layer_vars
    \/ StepCall /\ UNCHANGED layer_vars
    \/ StepGate /\ UNCHANGED layer_vars
    \/ StepEnd /\ UNCHANGED layer_vars
    \/ StepInvoke /\ UNCHANGED layer_vars
    \/ TaskletReturnKeep /\ UNCHANGED layer_vars
    \/ TaskletReturnFree /\ UNCHANGED layer_vars

SpecRunall == InitChannel /\ [][NextRunall]_vars

(***************************************************************************)
(* Message layer with a staged packet: specification.  The main loop keeps *)
(* calling isn_msg_sched, so a sched call that changes the state is not    *)
(* put off for ever.                                                       *)
(***************************************************************************)
StagedSchedCall == StagedSched /\ UNCHANGED << clock, ticks, beside_msg, m_hist >>

NextStaged ==
    \/ StagedRecv /\ UNCHANGED << clock, ticks, beside_msg, m_hist >>
    \/ StagedClear /\ UNCHANGED << clock, ticks, beside_msg, m_hist >>
    \/ StagedDiscard /\ UNCHANGED << clock, ticks, beside_msg, m_hist >>
    \/ StagedSchedCall

SpecStaged == InitMsg /\ [][NextStaged]_vars /\ WF_vars(StagedSchedCall)

(***************************************************************************)
(* isn_msg_sched interrupted by isn_msg_post: specification                *)
(***************************************************************************)
beside_sch == << reactor_vars, frame_vars, buf_vars, long_vars, chan,
                 dup, txd, cd, lp, m_log, m_ops, m_hist >>

NextPost ==
    \/ SchedEnter /\ UNCHANGED << clock, ticks, beside_sch >>
    \/ SchedScanStep /\ UNCHANGED << clock, ticks, beside_sch >>
    \/ SchedScanEnd /\ UNCHANGED << clock, ticks, beside_sch >>
    \/ SchedStore /\ UNCHANGED << clock, ticks, beside_sch >>
    \/ IrqPost /\ UNCHANGED << clock, ticks, beside_sch >>

SpecPost == InitMsg /\ [][NextPost]_vars

(***************************************************************************)
(* Reactor: properties                                                     *)
(***************************************************************************)

\* C2: a tasklet queued with mutex bits M is never called by step() at a
\* moment when one of the bits of M is locked.
C2_NoExecWhileLocked == \A s \in Slots : ~g_ent[s].locked_exec

\* C3: a tasklet queued once with queue() that returns NULL and never changes
\* its own time is executed at most once, whatever the clock is when it is
\* queued and when it runs.
C3_ExecutedOnce ==
    \A s \in Slots :
        (g_ent[s].kind = "queue" /\ g_ent[s].pure) => g_ent[s].execs <= 1

\* C4: one call of step() executes at most one tasklet.
C4_AtMostOne == executed <= 1 /\ step_ret <= 1

\* C5 as stated: an entry is never called while an entry queued before it with
\* the same time and no locked mutex has not yet been called.
C5_Fifo == \A s \in Slots : ~g_ent[s].overtook

\* C5 amended: an entry is never called while an entry queued before it with
\* the same time and no locked mutex, whose time had been reached when the
\* pass began, has not yet been called; this also after slots were recycled.
C5_FifoDue == \A s \in Slots : ~g_ent[s].overtook_due

\* two entries with the same time, both due when the pass began, the later
\* queued one in a recycled slot of lower index; the earlier one is running
C5_Witness ==
    /\ pc = "tasklet"
    /\ g_ent[self_index].execs = 1
    /\ \E x \in Slots :
        /\ Before(self_index, x)
        /\ x < self_index
        /\ Pending(x)
        /\ g_ent[x].execs = 0
        /\ QUEUE_TIME(queue_table, x) = QUEUE_TIME(queue_table, self_index)
        /\ isn_clock_diff(QUEUE_TIME(queue_table, x), pass_clock) <= 0

\* number of entries that are queued and not cancelled
NumPending == Cardinality({ s \in Slots : Pending(s) })

\* the largest number of entries the queue takes
MaxPending == QueueLen - 2

\* C6: an enqueue when the queue holds MaxPending pending entries returns -1
\* and leaves the queue unchanged; an enqueue when it holds one fewer succeeds
\* and returns an index >= 0.
C6_Capacity ==
    [][ (Queue \/ QueueAt) =>
          /\ NumPending = MaxPending =>
                (ret' = -1 /\ UNCHANGED << queue_table, queue_free >>)
          /\ NumPending = MaxPending - 1 => ret' >= 0 ]_vars

RECURSIVE Bytes(_)
Bytes(pieces) ==
    IF pieces = << >> THEN << >>
    ELSE Head(pieces) \o Bytes(Tail(pieces))

\* every byte sent has been taken by recv, no frame was damaged on the line,
\* the child took all it was offered and no timeout fell inside a frame
Undisturbed ==
    /\ wire = << >>
    /\ g_bad = 0
    /\ f.rx_retries = 0
    /\ g_cut_in = 0

\* C8: in Short and in Compact mode, once the frames made by send from
\* payloads of 1..64 bytes with a first byte below 0x80 have been fed to recv,
\* the child has been handed exactly these payloads, each once, in order.
C8_RoundTrip == Undisturbed => child_rx = g_sent

\* C9: in Compact mode, once the frames have been fed to recv, the child has
\* been handed the payload of every frame with a matching trailer exactly
\* once, nothing of a frame with a mismatching trailer, and rx_errors counts
\* the frames with a mismatching trailer.
C9_Crc ==
    (f.crc_enabled = 1 /\ wire = << >> /\ f.rx_retries = 0 /\ g_cut_in = 0)
        => (child_rx = g_sent /\ f.rx_errors = g_bad)

\* C10: a call in which the child takes less than offered counts a retry and
\* reports the bytes from the frame's last byte on as not consumed; once the
\* parent has resubmitted them, at whatever time, the child has got every
\* payload byte once and in order and nothing of the input was handed on as
\* unframed data.
C10_Resubmit ==
    /\ (f.rx_retries > 0 /\ f.state = IS_FW_MESSAGE) => wire # << >>
    /\ (wire = << >> /\ g_bad = 0 /\ ~g_hdr80 /\ g_cut_in = 0)
          => (Bytes(child_rx) = Bytes(g_sent) /\ other_rx = << >>)

(***************************************************************************)
(* Send buffer: properties                                                 *)
(***************************************************************************)
\* C1: from a getsendbuf that handed out the buffer until the next send or
\* free on the layer, buf_locked is set and no second getsendbuf hands out
\* the buffer.
C1_BufLocked ==
    /\ g_held <= 1
    /\ g_held = 1 => buf.buf_locked = 1

\* the buffer is handed out and a second reserving getsendbuf was refused
C1_Witness ==
    /\ g_held = 1
    /\ buf.buf_locked = 1
    /\ buf_ret = -1
    /\ buf_dest = NULL

C12_LongRoundTrip ==
    (lwire = << >> /\ ~g_lcut /\ lf.rx_retries = 0)
        => (lchild_rx = g_lsent /\ lf.rx_errors = 0)

\* C13 as stated: when the parent has room, getsendbuf for 4096 bytes returns
\* 4096 and getsendbuf for 4097 bytes fails and hands out no buffer.
C13_LongTooBigFails ==
    lgsb.room >= ISN_FRAME_LONG_MAXSIZE + ISN_FRAME_LONG_OVERHEAD
        => /\ lgsb.size = ISN_FRAME_LONG_MAXSIZE
                => lgsb.ret = ISN_FRAME_LONG_MAXSIZE
           /\ lgsb.size = ISN_FRAME_LONG_MAXSIZE + 1
                => (lgsb.ret < 0 /\ ~lgsb.dest)

\* C13 amended: when the parent has room, getsendbuf for 4096 bytes and
\* getsendbuf for 4097 bytes both return 4096, ask the parent for 4096 bytes
\* plus header and trailer, and hand out the buffer if one was asked for.
C13_LongLimited ==
    (lgsb.room >= ISN_FRAME_LONG_MAXSIZE + ISN_FRAME_LONG_OVERHEAD
       /\ lgsb.size >= ISN_FRAME_LONG_MAXSIZE)
        => /\ lgsb.ret = ISN_FRAME_LONG_MAXSIZE
           /\ lgsb.asked = ISN_FRAME_LONG_MAXSIZE + ISN_FRAME_LONG_OVERHEAD
           /\ lgsb.dest = lgsb.want

\* a buffer of 4096 bytes is held after getsendbuf was asked for 4097 bytes
\* of a parent that has room for more than the largest frame
C13_Witness ==
    /\ lgsb.size = ISN_FRAME_LONG_MAXSIZE + 1
    /\ lgsb.room > ISN_FRAME_LONG_MAXSIZE + ISN_FRAME_LONG_OVERHEAD
    /\ lgsb.ret = ISN_FRAME_LONG_MAXSIZE
    /\ lgsb.held

(***************************************************************************)
(* Message layer: properties                                               *)
(***************************************************************************)

\* the slot a packet handed to the parent is for
PacketSlot(pkt) == pkt[2] % 128

\* a slot pending before the call that neither the lock nor QUERY_WAIT held
\* back
Unblocked(o, n) ==
    /\ o.pri[n] > ISN_MSG_PRI_CLEAR
    /\ o.pri[n] # ISN_MSG_PRI_QUERY_WAIT
    /\ o.lock = 0

\* C14: sched transmits no packet for a slot whose priority is CLEAR, and it
\* picks a slot that is in QUERY_WAIT only when data received for that slot
\* sits in the receive buffer.
C14_NoClearNoWait ==
    m_log.op = "sched" =>
        /\ \A i \in 1 .. Len(m_log.out) :
               m_log.pre.pri[PacketSlot(m_log.out[i])] # ISN_MSG_PRI_CLEAR
        /\ (m_log.picked # -1 =>
               m_log.pre.pri[m_log.picked] # ISN_MSG_PRI_CLEAR)
        /\ (/\ m_log.picked # -1
            /\ m_log.pre.pri[m_log.picked] = ISN_MSG_PRI_QUERY_WAIT)
           => /\ m_log.pre.isn_msg_received_msgnum = m_log.picked
              /\ m_log.pre.isn_msg_received_data # << >>

\* a slot in QUERY_WAIT was picked with its data staged, while another slot
\* was CLEAR
C14_Witness ==
    /\ m_log.op = "sched"
    /\ m_log.picked # -1
    /\ m_log.pre.pri[m_log.picked] = ISN_MSG_PRI_QUERY_WAIT
    /\ m_log.calls # << >>
    /\ \E n \in MsgSlots : m_log.pre.pri[n] = ISN_MSG_PRI_CLEAR

\* C15: when several slots are pending with different priorities and none is
\* held back by the lock or by QUERY_WAIT, the slot sched transmits has the
\* highest priority of them.
C15_HigherFirst ==
    (/\ m_log.op = "sched"
     /\ m_log.out # << >>
     /\ \A n \in MsgSlots :
            m_log.pre.pri[n] > ISN_MSG_PRI_CLEAR => Unblocked(m_log.pre, n))
    => \A n \in MsgSlots :
           m_log.pre.pri[n] <= m_log.pre.pri[PacketSlot(m_log.out[1])]

\* slots with arguments and a handler
QuerySlots == {n \in MsgSlots : MsgTable[n].handler /\ MsgTable[n].size > 0}

\* an arguments packet for slot n of the size of the slot
IsArgsFor(pkt, n) ==
    /\ Len(pkt) = MsgTable[n].size + 2
    /\ pkt[1] = ISN_PROTO_MSG
    /\ pkt[2] = n

\* C16: query round trip on a slot with a handler.  A sched call that finds
\* the slot in QUERY_ARGS as the only pending slot, with room at the parent,
\* emits the empty arguments packet of the slot and leaves it in QUERY_WAIT;
\* a sched call that finds it in QUERY_WAIT without data staged for it emits
\* nothing for it and calls no handler; the peer's arguments packet for the
\* waiting slot is staged; and the sched call that follows calls the handler
\* exactly once with that payload, clears the priority and emits no packet.
C16_QueryRoundTrip ==
    \A n \in QuerySlots :
        /\ (/\ m_log.op = "sched"
            /\ m_log.pre.pending # 0
            /\ m_log.pre.lock = 0
            /\ m_log.room >= 2
            /\ m_log.pre.pri[n] = ISN_MSG_PRI_QUERY_ARGS
            /\ m_log.pre.isn_msg_received_msgnum # n
            /\ \A k \in MsgSlots \ {n} : m_log.pre.pri[k] = ISN_MSG_PRI_CLEAR)
           => /\ m_log.picked = n
              /\ m_log.out = << << ISN_PROTO_MSG, n >> >>
              /\ m_log.calls = << >>
              /\ m.pri[n] = ISN_MSG_PRI_QUERY_WAIT
        /\ (/\ m_log.op = "sched"
            /\ m_log.pre.pri[n] = ISN_MSG_PRI_QUERY_WAIT
            /\ m_log.pre.isn_msg_received_msgnum # n)
           => /\ \A i \in 1 .. Len(m_log.out) : PacketSlot(m_log.out[i]) # n
              /\ \A i \in 1 .. Len(m_log.calls) : m_log.calls[i].slot # n
              /\ m.pri[n] = ISN_MSG_PRI_QUERY_WAIT
        /\ (/\ m_log.op = "recv"
            /\ IsArgsFor(m_log.arg, n)
            /\ m_log.pre.pri[n] = ISN_MSG_PRI_QUERY_WAIT
            /\ m_log.pre.isn_msg_received_msgnum = NO_MSGNUM)
           => /\ m.isn_msg_received_msgnum = n
              /\ m.isn_msg_received_data
                    = SubSeq(m_log.arg, 3, Len(m_log.arg))
              /\ m.pri[n] = ISN_MSG_PRI_QUERY_WAIT
              /\ m.msgnum = n
              /\ m.pending = 1
              /\ m_log.ret = Len(m_log.arg)
        /\ (/\ m_log.op = "sched"
            /\ m_log.pre.pending # 0
            /\ m_log.room >= MsgTable[n].size + 2
            /\ m_log.pre.pri[n] = ISN_MSG_PRI_QUERY_WAIT
            /\ m_log.pre.isn_msg_received_msgnum = n
            /\ m_log.pre.msgnum = n)
           => /\ m_log.picked = n
              /\ m_log.calls = << [slot |-> n, input |-> TRUE,
                                   data |-> m_log.pre.isn_msg_received_data] >>
              /\ m_log.out = << >>
              /\ m.pri[n] = ISN_MSG_PRI_CLEAR
              /\ m.isn_msg_received_msgnum = NO_MSGNUM

\* the query for slot 1 went out, the peer's eight bytes came in, and the
\* handler has been called with them
C16_Witness ==
    /\ m_log.op = "sched"
    /\ m_log.picked = 1
    /\ m_log.pre.pri[1] = ISN_MSG_PRI_QUERY_WAIT
    /\ m_log.calls = << [slot |-> 1, input |-> TRUE,
                         data |-> PeerArgs(1, MsgTable[1].size)] >>
    /\ m.tx_packets = 1
    /\ m.rx_packets = 1
    /\ m.pri[1] = ISN_MSG_PRI_CLEAR

\* slots in QUERY_WAIT or UPDATE_ARGS, the lock holder among them
Awaited(o) ==
    {n \in MsgSlots : o.pri[n] \in {ISN_MSG_PRI_QUERY_WAIT,
                                    ISN_MGG_PRI_UPDATE_ARGS}}
    \cup (IF o.lock # 0 THEN {o.lock} ELSE {})

\* C17 as stated: resend_queries(timeout) returns 0 if and only if no slot
\* has priority QUERY_WAIT or UPDATE_ARGS at the time of the call.
C17_ZeroIffNone ==
    m_log.op = "resend" =>
        (m_log.ret = 0 <=>
            \A n \in MsgSlots :
                m_log.pre.pri[n] \notin {ISN_MSG_PRI_QUERY_WAIT,
                                         ISN_MGG_PRI_UPDATE_ARGS})

\* C17: resend_queries(timeout) returns 0 while the number of calls since
\* the timer was reset does not exceed timeout; after that it returns the
\* number of slots in QUERY_WAIT or UPDATE_ARGS, the lock holder counted as
\* one of them.
C17_ResendCount ==
    m_log.op = "resend" =>
        m_log.ret = IF m_log.pre.resend_timer + 1 > m_log.arg[1]
                    THEN Cardinality(Awaited(m_log.pre))
                    ELSE 0

\* resend_queries returned 0 although a slot was in QUERY_WAIT
C17_Witness ==
    /\ m_log.op = "resend"
    /\ m_log.ret = 0
    /\ \E n \in MsgSlots : m_log.pre.pri[n] = ISN_MSG_PRI_QUERY_WAIT

OutOfTable(pkt) ==
    /\ Len(pkt) >= 2
    /\ pkt[1] = ISN_PROTO_MSG
    /\ pkt[2] % 128 >= MsgTableSize

\* C19 as stated: a received MSG packet whose slot index is outside the
\* table and is not 127 changes no priority, schedules nothing and
\* increments a drop counter.
C19_OutOfTableDropped ==
    (/\ m_log.op = "recv"
     /\ OutOfTable(m_log.arg)
     /\ m_log.arg[2] % 128 # ISN_MSG_NUM_LAST)
    => /\ m.pri = m_log.pre.pri
       /\ m.pending = m_log.pre.pending
       /\ m.rx_dropped = m_log.pre.rx_dropped + 1

\* C19: a received MSG packet whose slot index is outside the table is
\* taken as a packet without data for the last slot of the table: nothing
\* is staged, no other slot changes, the last slot is posted with
\* DESCRIPTION or HIGHEST unless it is in UPDATE_ARGS, and the packet is
\* counted in rx_packets and not in rx_dropped.
C19_OutOfTableIsLast ==
    (/\ m_log.op = "recv"
     /\ OutOfTable(m_log.arg))
    => LET last == MsgTableSize - 1
           pre  == m_log.pre
       IN  /\ m_log.ret = Len(m_log.arg)
           /\ m.rx_dropped = pre.rx_dropped
           /\ m.rx_packets = pre.rx_packets + 1
           /\ m.isn_msg_received_msgnum = pre.isn_msg_received_msgnum
           /\ m.isn_msg_received_data = pre.isn_msg_received_data
           /\ m.msgnum = last
           /\ \A n \in MsgSlots \ {last} : m.pri[n] = pre.pri[n]
           /\ pre.pri[last] # ISN_MGG_PRI_UPDATE_ARGS =>
                IF m_log.arg[2] >= DESC_FLAG
                THEN /\ m.pri[last] = ISN_MSG_PRI_DESCRIPTION
                     /\ m.pending = 1
                ELSE IF MsgTable[last].size # 0
                THEN /\ m.pri[last] = IF pre.pri[last] < ISN_MSG_PRI_HIGHEST
                                      THEN ISN_MSG_PRI_HIGHEST
                                      ELSE pre.pri[last]
                     /\ m.pending = 1
                ELSE /\ m.pri[last] = pre.pri[last]
                     /\ m.pending = pre.pending

\* a descriptor request for slot 5 made the last slot pending
C19_Witness ==
    /\ m_log.op = "recv"
    /\ m_log.arg = << ISN_PROTO_MSG, DESC_FLAG + 5, 9 >>
    /\ m_log.pre.pri[MsgTableSize - 1] = ISN_MSG_PRI_CLEAR
    /\ m.pri[MsgTableSize - 1] = ISN_MSG_PRI_DESCRIPTION
    /\ m.rx_dropped = 0

\* C20: when sched picks a slot that has no handler and no arguments for an
\* arguments transmission, it clears the slot's priority and emits no
\* packet.
C20_NoHandlerNoPacket ==
    (/\ m_log.op = "sched"
     /\ m_log.picked # -1
     /\ ~MsgTable[m_log.picked].handler
     /\ MsgTable[m_log.picked].size = 0
     /\ m_log.pre.pri[m_log.picked] < ISN_MSG_PRI_DESCRIPTIONLOW
     /\ m_log.room >= 2)
    => /\ m.pri[m_log.picked] = ISN_MSG_PRI_CLEAR
       /\ m_log.out = << >>

\* the packet 7F FF: a descriptor request for slot 127
FastLoadRequest == << ISN_PROTO_MSG, DESC_FLAG + ISN_MSG_NUM_LAST >>

\* the first call was the receipt of 7F FF and the k calls after it were
\* sched calls that found room at the parent
FastLoadThenSched(k) ==
    /\ Len(m_hist) = k + 1
    /\ m_hist[1].op = "recv"
    /\ m_hist[1].arg = FastLoadRequest
    /\ \A i \in 2 .. k + 1 : m_hist[i].op = "sched" /\ m_hist[i].room >= 66

\* the descriptor packet of slot n
DescPacket(n) == << ISN_PROTO_MSG, DESC_FLAG + n >> \o MsgTable[n].desc

C23_RunReturnsEarliest ==
    (/\ pc = "idle"
     /\ step_ret = 0
     /\ queue_changed = 0
     /\ \A s \in Slots : ~g_ent[s].dropped)
    => \A s \in Slots :
           (/\ Pending(s)
            /\ ~MutexBlocked(queue_table, s, queue_mutex_locked_bits))
           => isn_clock_diff(QUEUE_TIME(queue_table, s),
                             isn_reactor_timer_trigger) >= 0

\* C24: with a single periodic tasklet queued, the scheduled timestamp of each
\* execution after the first equals that of the previous execution plus the
\* period, however late the previous execution started
C24_NoDrift ==
    [][(/\ pc = "loop"
        /\ pc' = "tasklet"
        /\ g_count = 1
        /\ g_ent[step_j].execs >= 1)
       => isn_reactor_active_timestamp'
              = Add32(isn_reactor_active_timestamp, RepeatPeriod)]_vars

\* C25: every non-zero value isn_reactor_getmutex has returned is a single
\* bit, differs from the values returned before it, and lies inside the
\* mutex field that isn_reactor_call_at stores and step() tests
C25_MutexInField ==
    \A n \in 0 .. (muxes - 1) :
        GetMutexValue(n) # 0
        => /\ \E k \in 0 .. 31 : GetMutexValue(n) = Pow2(k)
           /\ \A n0 \in 0 .. (n - 1) : GetMutexValue(n0) # GetMutexValue(n)
           /\ BitAnd(GetMutexValue(n), MutexField) = GetMutexValue(n)

\* the layer object after drv->send(drv, dest, size) with the buffer that
\* getsendbuf handed out; written is what write() returns in the posix layer
SentHeld(b, size, written) ==
    IF b.layer = "uart" THEN isn_uart_send(b, HeldPtr(b), size)
    ELSE IF b.layer = "usbuart" THEN isn_usbuart_send(b, HeldPtr(b), size)
    ELSE send_buf(b, HeldPtr(b), written)

\* C26: while the buffer is handed out, a send of the buffer with any size,
\* 0 included, and with a write that succeeds or fails, leaves the buffer
\* released, so that the next getsendbuf finds it available
C26_SendReleases ==
    (g_held = 1 /\ buf.buf_locked = 1)
    => \A size \in {0, 1, SendLimit(buf)} \cap (0 .. SendLimit(buf)),
          written_all \in BOOLEAN :
           BufAvailable(SentHeld(buf, size, IF written_all THEN size ELSE -1))

\* C27: while the buffer of the wire-adjacent layer is handed out, so that
\* the layer has no buffer for a request, a getsendbuf on the frame layer
\* above it and one on the transport layer above that return -1, leave a
\* null destination and reserve nothing
C27_Unavailable ==
    buf.buf_locked = 1 =>
    \A want \in BOOLEAN, size \in BufSizes, ready \in BOOLEAN :
        LET xs == 1 + f.crc_enabled
            fw == WireGetSendBuf(buf, want,
                                 Min(size, ISN_FRAME_MAXSIZE) + xs, ready)
            fr == isn_frame_getsendbuf(buf, f.crc_enabled, want, size, ready)
            tw == WireGetSendBuf(buf, want,
                                 Min(size + PROTO_SIZE, ISN_FRAME_MAXSIZE) + xs,
                                 ready)
            tr == isn_trans_getsendbuf(buf, f.crc_enabled, TRUE, want, size, ready)
        IN  /\ fw.ret = -1
               => /\ fr.ret = -1
                  /\ want => fr.dest = NULL
                  /\ fr.b.buf_locked = buf.buf_locked
            /\ tw.ret = -1
               => /\ tr.ret = -1
                  /\ want => tr.dest = NULL
                  /\ tr.b.buf_locked = buf.buf_locked

(***************************************************************************)
(* Frame layer: header byte and the one-byte frame                         *)
(***************************************************************************)
\* position in wire of the header of the k-th frame sent, while none of the
\* frames has been taken from the line
RECURSIVE FrameStart(_)
FrameStart(k) ==
    IF k = 1 THEN 1
    ELSE FrameStart(k - 1) + Len(g_sent[k - 1]) + 1 + f.crc_enabled

SentHeader(k) == wire[FrameStart(k)]

C29_PingAsStated ==
    (/\ f.crc_enabled = 1
     /\ g_bad = 1
     /\ wire = << >>
     /\ f.state = IS_NONE
     /\ g_cut_in = 0)
    => /\ child_rx = << PingPayload >>
       /\ f.rx_packets = 1
       /\ f.rx_errors = 0

\* C29 amended: after the bytes C0 00 A4 were fed into a Compact frame layer
\* and taken by it without a timeout, the child taking what it is offered,
\* the child was called once with the single byte 00, rx_packets is 1 and
\* rx_errors is 0; after the bytes C0 00 4D the child was not called,
\* rx_packets is 0 and rx_errors is 1.
C29_Ping ==
    /\ (/\ f.crc_enabled = 1
        /\ g_sent = << PingPayload >>
        /\ wire = << >>
        /\ f.state = IS_NONE
        /\ g_cut_in = 0
        /\ g_cut_fw = 0
        /\ f.rx_retries = 0)
       => /\ child_rx = << PingPayload >>
          /\ f.rx_packets = 1
          /\ f.rx_errors = 0
    /\ (/\ f.crc_enabled = 1
        /\ g_bad = 1
        /\ wire = << >>
        /\ f.state = IS_NONE
        /\ g_cut_in = 0)
       => /\ child_rx = << >>
          /\ f.rx_packets = 0
          /\ f.rx_errors = 1

\* the frame C0 00 A4 was taken and its payload handed to the child
C29_Witness ==
    /\ f.crc_enabled = 1
    /\ g_sent = << PingPayload >>
    /\ wire = << >>
    /\ f.state = IS_NONE
    /\ f.rx_retries = 0
    /\ child_rx = << PingPayload >>
    /\ f.rx_packets = 1

\* C30: every frame isn_frame_send has put on the line carries at least one
\* payload byte, and the length its header encodes is the number of payload
\* bytes that follow
C30_NoEmptyFrame ==
    \A k \in 1 .. Len(g_sent) :
        /\ Len(g_sent[k]) >= 1
        /\ (SentHeader(k) % 64) + 1 = Len(g_sent[k])

(***************************************************************************)
(* Receiver duplicator: properties                                         *)
(***************************************************************************)
\* the bytes the duplicator has reported as consumed
DupConsumed == SubSeq(dup.fed, 1, Len(dup.fed) - Len(dup.stream))

\* C31 as stated: when the parent has fed the whole stream, resubmitting
\* what was reported as unconsumed, both children have received the
\* complete stream, whatever counts they returned.
C31_BothComplete ==
    dup.stream = << >> => (dup.rx1 = dup.fed /\ dup.rx2 = dup.fed)

\* C31 amended: as long as dup_errors is 0, both children have received
\* exactly the bytes consumed so far; each call in which the children return
\* different counts adds one to dup_errors, and no child ever receives a
\* byte twice or out of order or more bytes than were consumed.
C31_CompleteIfNoErrors ==
    /\ dup.dup_errors = 0
          => (dup.rx1 = DupConsumed /\ dup.rx2 = DupConsumed)
    /\ dup.dup_errors <= dup.calls
    /\ (dup.rx1 # DupConsumed \/ dup.rx2 # DupConsumed) => dup.dup_errors > 0
    /\ \A i \in 1 .. Len(dup.rx1) - 1 : dup.rx1[i] < dup.rx1[i + 1]
    /\ \A i \in 1 .. Len(dup.rx2) - 1 : dup.rx2[i] < dup.rx2[i + 1]
    /\ Len(dup.rx1) <= Len(DupConsumed)
    /\ Len(dup.rx2) <= Len(DupConsumed)

\* a stream of three bytes went through in two calls without a difference
C31_Witness ==
    /\ dup.stream = << >>
    /\ Len(dup.fed) = MaxStream
    /\ dup.calls = 2
    /\ dup.dup_errors = 0
    /\ dup.rx1 = dup.fed
    /\ dup.rx2 = dup.fed

(***************************************************************************)
(* UDB UART transmit ring: properties                                      *)
(***************************************************************************)
\* C32: the bytes handed to the transmitter are the bytes written into the
\* granted buffers, each once and in the order written, across every wrap
\* point; no write leaves tx_buf; and when the ring is drained the number of
\* bytes transmitted equals the number sent.
C32_RingIntact ==
    /\ ~txd.bad
    /\ ~txd.oob
    /\ txd.txed <= txd.sent
    /\ (buf.txb_rdi = buf.txb_wri /\ txd.s_pc # "wrw") => txd.txed = txd.sent

\* every buffer was sent and drained, the reader having wrapped at a wrap
\* point below the end of the array
C32_Witness ==
    /\ txd.sends = MaxRingSends + MaxRingSmall
    /\ buf.txb_rdi = buf.txb_wri
    /\ txd.txed = txd.sent
    /\ txd.sent > TX_FIFO_SIZE
    /\ buf.txb_wrw < TX_FIFO_SIZE - 1

\* C33: whenever the ring is empty and no buffer is reserved, a getsendbuf
\* for 128 bytes is granted in full
C33_Grants128 ==
    (/\ buf.buf_locked = 0
     /\ buf.txb_rdi = buf.txb_wri
     /\ txd.s_pc = "idle")
    => isn_uart_getsendbuf(buf, TRUE, 128).ret = 128

(***************************************************************************)
(* Clock differences: properties                                           *)
(***************************************************************************)
\* C34: for counter values a and b whose true distance is below 2^31,
\* isn_clock_diff(a, b) is that distance as a signed number, also when the
\* counter wrapped between b and a.
C34_DiffIsDistance == cd.pc = "done" => cd.r = cd.d

\* a is later than b and numerically smaller: the counter wrapped between
C34_Witness ==
    /\ cd.pc = "done"
    /\ cd.b = -1
    /\ cd.a = 1
    /\ cd.r = 2

(***************************************************************************)
(* isn_msg_sched interrupted by isn_msg_post: properties                   *)
(***************************************************************************)
\* C35: a post of a non-zero priority made from an interrupt during a sched
\* call is not lost: when the call has returned and the scan has not looked
\* at the slot since the post, the layer reports pending work.
C35_PostKept == (sch.pc = "idle" /\ sch.irq # -1) => m.pending # 0

(***************************************************************************)
(* Reactor: the list of slots                                              *)
(***************************************************************************)
\* the slots on the chain of links that starts at slot i
RECURSIVE Linked(_, _)
Linked(i, fuel) ==
    IF fuel = 0 \/ i >= QueueLen THEN {}
    ELSE {i} \cup Linked(QUEUE_NEXT(queue_table, i), fuel - 1)

\* the slots the scan of isn_reactor_step visits from slot j on
RECURSIVE Scanned(_, _)
Scanned(j, fuel) ==
    IF fuel = 0 \/ j >= QueueLen \/ QUEUE_FUNC_VALID(queue_table, j) = 0
    THEN {}
    ELSE {j} \cup Scanned(QUEUE_NEXT(queue_table, j), fuel - 1)

\* C36: between calls, every slot is on the chain of links that starts at
\* the head and runs through the pending entries and the free slots, the
\* counter of pending entries equals their number, and every queued entry
\* that was not dropped is visited by the scan of step().
C36_ListIntact ==
    pc = "idle" =>
        /\ Linked(0, QueueLen) = Slots
        /\ isn_tasklet_queue_size = NumPending
        /\ \A s \in Slots :
              Pending(s) => s \in Scanned(QUEUE_NEXT(queue_table, 0), QueueLen)

(***************************************************************************)
(* Message layer with a staged packet: properties                          *)
(***************************************************************************)
\* the staging buffer holds the arguments of a received packet
Staged == m.isn_msg_received_msgnum # NO_MSGNUM

\* C37: a staged packet is eventually handed to its handler and the staging
\* buffer released, while sched keeps being called with room in the parent,
\* also when the application clears the slot or discards what is pending.
C37_StagedHandled == Staged ~> ~Staged

(***************************************************************************)
(* Channel drained into the local queue: properties                        *)
(***************************************************************************)
\* the entries between the read and the write index of the ring
RECURSIVE InRing(_, _)
InRing(i, fuel) ==
    IF fuel = 0 \/ i = chan.wri THEN {}
    ELSE {chan.fifo[i]} \cup InRing(BitAnd(i + 1, chan.size_mask), fuel - 1)

\* C38: runall removes an entry from the ring only when it was placed in
\* the local queue: every entry pushed is in the ring or was handed over.
C38_NoneLost ==
    chan.c_pc = "idle" =>
        \A k \in 1 .. Len(chan.pushed) :
            \/ chan.pushed[k] \in InRing(chan.rdi, chan.size_mask + 1)
            \/ \E h \in 1 .. Len(chan.handed) : chan.handed[h] = chan.pushed[k]

(***************************************************************************)
(* Frame layer fed with bytes outside any frame: properties                *)
(***************************************************************************)
\* C39: the number of bytes held in recv_buf never exceeds its 64 bytes and
\* no write goes behind its end, whatever isn_frame_recv is fed.
C39_StagingBounded ==
    /\ f.recv_size <= ISN_FRAME_MAXSIZE
    /\ Len(f.recv_buf) <= ISN_FRAME_MAXSIZE

(***************************************************************************)
(* isn_frame_recv with its loop counter: properties                        *)
(***************************************************************************)
\* C40: a call of recv returns, for every size of its input, and the count
\* it returns does not exceed that size.
C40_RecvReturns ==
    /\ [](lp.pc = "done" => lp.ret <= Len(lp.buf))
    /\ (lp.pc = "loop" ~> lp.pc = "done")

====
